---- MODULE Spec2Model ----
(***************************************************************************)
(* A model of the xmit transfer client: chunking of missing parts, the     *)
(* upload state machine with its parallel chunk phase, and the download    *)
(* traversal.                                                              *)
(*                                                                         *)
(* File bodies are modelled by small integers ("bodies").  The BLAKE3-256  *)
(* hash of a body is modelled by the injective map HashOf, so two bodies   *)
(* have the same hash exactly when they are the same bytes.  Body 0 is the *)
(* empty byte slice (also what a lookup of an absent map key yields in Go).*)
(* Sizes are counted in MiB units.                                         *)
(***************************************************************************)
EXTENDS Integers, Sequences, FiniteSets, TLC

(***************************************************************************)
(* Bounds of the model.                                                    *)
(***************************************************************************)
MaxLen == 3
MaxEnvParallelism == 2
MaxParts == 3
MaxChildren == 2
MaxClients == 3
MaxSelections == 6
\* the largest payload handed to a progress reader, in KiB
MaxPayload == 8

(***************************************************************************)
(* Program constants.                                                      *)
(***************************************************************************)
\* 10*1024*1024 bytes, in MiB units
ChunkMaxSize == 10

\* the byte slices the model ranges over; 0 is the empty slice
Bodies == {0, 1, 2, 3, 4, 5}

\* len(item) of a byte slice
LenOf(b) ==
  CASE b = 0 -> 0
    [] b = 1 -> 2
    [] b = 2 -> 4
    [] b = 3 -> 4
    [] b = 4 -> 9
    [] b = 5 -> 11
    [] OTHER -> 1

\* all sequences over S of length at most n
SeqsUpTo(S, n) == UNION {[1..k -> S] : k \in 0..n}

RECURSIVE SumLen(_)
SumLen(chunk) ==
  IF chunk = <<>> THEN 0 ELSE LenOf(Head(chunk)) + SumLen(Tail(chunk))

RECURSIVE Flatten(_)
Flatten(chunks) ==
  IF chunks = <<>> THEN <<>> ELSE Head(chunks) \o Flatten(Tail(chunks))

(***************************************************************************)
(* chunkSlice (util.go)                                                    *)
(***************************************************************************)
\* the condition under which the current chunk is closed before the item
StartsNewChunkUnguarded(currentSize, itemSize, maxSize) ==
  currentSize + itemSize > maxSize

StartsNewChunk(currentSize, itemSize, maxSize) ==
  currentSize + itemSize > maxSize /\ currentSize > 0

RECURSIVE chunkLoop(_, _, _, _, _)
chunkLoop(data, maxSize, result, currentChunk, currentSize) ==
  IF data = <<>>
  THEN IF Len(currentChunk) > 0 THEN Append(result, currentChunk) ELSE result
  ELSE LET item == Head(data)
           itemSize == LenOf(item)
           flush == StartsNewChunk(currentSize, itemSize, maxSize)
       IN chunkLoop(Tail(data), maxSize,
                    IF flush THEN Append(result, currentChunk) ELSE result,
                    Append(IF flush THEN <<>> ELSE currentChunk, item),
                    (IF flush THEN 0 ELSE currentSize) + itemSize)

chunkSlice(data, maxSize) == chunkLoop(data, maxSize, <<>>, <<>>, 0)

(***************************************************************************)
(* Hashes and the ingested tree                                            *)
(***************************************************************************)
\* blake3.Sum256 of a byte slice: injective on the bodies of the model
HashOf(b) == 10 + b

\* the bodies of the files of the directory given to upload
TreeFiles == {1, 4}

\* a hash the server may name although no file of the tree has it
UnknownHash == HashOf(5)

\* b.contents after a successful ingestion: hash -> bytes
ContentMapOf(files) == [h \in {HashOf(b) : b \in files} |-> h - 10]

\* b.contents[h]: the bytes stored under h, the empty slice when h is absent
Lookup(contents, h) == IF h \in DOMAIN contents THEN contents[h] ELSE 0

\* blake3.Sum256 of the marshalled manifest of the tree
ManifestHashOf(files) == 100 + Cardinality(files)

(***************************************************************************)
(* Environment and server answers                                          *)
(***************************************************************************)
DefaultParallelism == 3

\* values of the UPLOAD_PARALLELISM environment variable:
\* unset (or empty), not an integer, or an integer
EnvValues == {<<"unset", 0>>, <<"text", 0>>} \cup {<<"int", v>> : v \in 1..MaxEnvParallelism}

\* upload.go:28-33: the default unless the variable is set and strconv.Atoi accepts it
ParallelismAs(env) == DefaultParallelism

ParallelismOf(env) == IF env[1] = "int" THEN env[2] ELSE DefaultParallelism

\* how protocol.Discover can end: the discovery record cannot be had, it
\* lists no protocol "xmit/0", or it lists it
DiscoveryOutcomes == {"unreachable", "no_xmit0", "ok"}

\* protocol.Discover returns an error unless the record lists "xmit/0"
DiscoverFailsUnreachable(d) == d = "unreachable"

DiscoverFails(d) == d # "ok"

\* how one HTTP exchange can end (Client.post, Client.decodeResponse):
\*   "transport": client.Post returned an error
\*   "status":    a status other than 200
\*   "decode":    the body could not be decoded
\*   "refused":   200, decoded, success = false
\*   "ok":        200, decoded, success = true
Outcomes == {"transport", "status", "decode", "refused", "ok"}

\* the error value a call returns for an outcome (nil = "none")
ErrOf(outcome) == IF outcome \in {"transport", "status", "decode"} THEN "err" ELSE "none"

\* the lists of missing hashes a server may answer with, at most n long
MissingLists(contents, n) == SeqsUpTo(DOMAIN contents \cup {UnknownHash}, n)

\* toUpload = append(toUpload, b.contents[h]) for h in missing
RECURSIVE AppendParts(_, _, _)
AppendParts(toUpload, contents, missing) ==
  IF missing = <<>> THEN toUpload
  ELSE AppendParts(Append(toUpload, Lookup(contents, Head(missing))), contents, Tail(missing))

\* the permutations of 1..n
IndexOrders(n) ==
  {f \in [1..n -> 1..n] : \A i, j \in 1..n : i # j => f[i] # f[j]}

\* the orderings slices.SortFunc may leave: a permutation of s that is
\* non-increasing in length (the sort is not stable)
Unsorted(s) == {s}

SortedByDecreasingSize(s) ==
  {t \in {[i \in 1..Len(s) |-> s[f[i]]] : f \in IndexOrders(Len(s))} :
     \A i \in 1..Len(s) - 1 : LenOf(t[i]) >= LenOf(t[i + 1])}

(***************************************************************************)
(* State                                                                   *)
(***************************************************************************)
VARIABLES
  csData,     \* chunkSlice: the list of parts given
  csMax,      \* chunkSlice: the bound given
  csResult,   \* chunkSlice: the chunks returned
  csDone,     \* chunkSlice: whether the call has returned
  envUp,      \* upload: UPLOAD_PARALLELISM
  key,        \* upload: the key given
  pc,         \* upload: where the invocation is
  failedAt,   \* upload: the phase whose failure ended the invocation ("none")
  uploadParallelism, \* upload: the concurrency cap given to the uploader
  contents,   \* upload: b.contents
  bbh,        \* upload: the manifest hash
  suggest,    \* upload: the Suggest exchange
  bundle,     \* upload: the UploadBundle exchange
  finalize,   \* upload: the Finalize exchange
  toUpload,   \* upload: the parts collected for upload
  chunks,     \* upload: the chunks handed to UploadChunksParallel
  wpc,        \* chunk workers: position of each worker
  started,    \* chunk workers: whether the worker's start signal was given
  held,       \* chunk workers: slots of the send semaphore currently held
  acquired,   \* chunk workers: whether the worker has taken a slot
  released,   \* chunk workers: the worker's "released" flag
  releases,   \* chunk workers: how often the worker gave a slot back
  results,    \* chunk workers: the results array
  reported,   \* upload: the chunks whose failure was reported
  dpc,        \* download: where the invocation is
  run,        \* download: 1 for the first download, 2 for the repeated one
  manifest,   \* download: the root node decoded from the bundle
  tasks,      \* download: the downloadTraversal calls, by address in the tree
  fsDirs,     \* file system: the directories that exist (paths)
  fsFiles,    \* file system: the files that exist (path -> bytes)
  issued,     \* download: the nodes DownloadParts was requested for, this run
  written,    \* download: the paths written with WriteFile, this run
  result,     \* download: what download returned ("none", "ok", "err")
  envDown,    \* download: DOWNLOAD_PARALLELISM
  downloadParallelism, \* download: the concurrency cap given to the downloader
  dheld,      \* download: slots of the DownloadParts semaphore currently held
  server,     \* the server the download talks to
  nClients,   \* client pool: the number of pinned clients
  counter,    \* client pool: the round-robin counter
  picks,      \* client pool: the clients selected so far, in order
  tpc,        \* client pool: per task, the client it holds (0 = none)
  disk,       \* ingestion: the directory tree given
  disk2,      \* ingestion: a second directory tree
  ing,        \* ingestion: the results of the ingestions made so far
  XMIT_KEY,   \* key lookup: the environment variable (<<"unset">> or <<"set", value>>)
  keyFile,    \* key lookup: the key file (<<"unreadable">> or <<"readable", content>>)
  foundKey,   \* key lookup: what findKey returned (<<"none">> before it is called)
  call,       \* endpoint call: the exchange an endpoint method makes and its result
  reader,     \* progress reader: the Reader's total and read fields
  readN,      \* progress reader: n of the last Read
  readErr,    \* progress reader: err of the last Read
  endMessages,\* progress reader: how often the end message was printed
  discovery,  \* upload, download: how protocol.Discover ended ("none" before)
  siteFiles,  \* preview: the regular files that exist (paths)
  cfg,        \* preview: the configuration read from xmit.json or xmit.toml
  response    \* preview: what ServeHTTP answered to the last request

chunkVars == <<csData, csMax, csResult, csDone>>

workerVars == <<wpc, started, held, acquired, released, releases, results>>

uploadVars == <<envUp, key, pc, failedAt, uploadParallelism, contents, bbh,
                suggest, bundle, finalize, toUpload, chunks, reported>>

downloadVars == <<dpc, run, manifest, tasks, fsDirs, fsFiles, issued, written, result,
                  envDown, downloadParallelism, dheld, server>>

poolVars == <<nClients, counter, picks, tpc>>

ingestVars == <<disk, disk2, ing>>

keyVars == <<XMIT_KEY, keyFile, foundKey>>

callVars == <<call>>

readerVars == <<reader, readN, readErr, endMessages>>

previewVars == <<siteFiles, cfg, response>>

clientVars == <<keyVars, callVars, readerVars, previewVars, discovery>>

vars == <<chunkVars, uploadVars, workerVars, downloadVars, poolVars, ingestVars, clientVars>>

\* an exchange that has not been started
\* (id: the hash the request names; for UploadBundle the ID of the response)
NoExchange == [state |-> "none", outcome |-> "none", present |-> FALSE, missing |-> <<>>, id |-> 0]

ChunkIdle ==
  /\ csData = <<>>
  /\ csMax = 0
  /\ csResult = <<>>
  /\ csDone = TRUE

UploadIdle ==
  /\ envUp = <<"unset", 0>>
  /\ key = ""
  /\ pc = "idle"
  /\ failedAt = "none"
  /\ uploadParallelism = 0
  /\ contents = <<>>
  /\ bbh = 0
  /\ suggest = NoExchange
  /\ bundle = NoExchange
  /\ finalize = NoExchange
  /\ toUpload = <<>>
  /\ chunks = <<>>
  /\ reported = {}
  /\ wpc = <<>>
  /\ started = <<>>
  /\ held = 0
  /\ acquired = <<>>
  /\ released = <<>>
  /\ releases = <<>>
  /\ results = <<>>

\* a node of the manifest tree: hash = 0 stands for a nil Hash (a directory)
FileNode(h) == [hash |-> h, children |-> <<>>]

DirNode(ch) == [hash |-> 0, children |-> ch]

\* the marshalled bytes of a node: a file's hash, or a directory's entries
\* (child name, bytes of the child) in the order they are written
EmptyBundle == [hash |-> 0, entries |-> <<>>]

\* a server that answers as it likes
AnyServer == [kind |-> "any", bundle |-> EmptyBundle, parts |-> <<>>]

DownloadIdle ==
  /\ dpc = "idle"
  /\ run = 1
  /\ manifest = DirNode(<<>>)
  /\ tasks = <<>>
  /\ fsDirs = {<<>>}
  /\ fsFiles = <<>>
  /\ issued = {}
  /\ written = {}
  /\ result = "none"
  /\ envDown = <<"unset", 0>>
  /\ downloadParallelism = 0
  /\ dheld = 0
  /\ server = AnyServer

\* no client pool has been built
PoolIdle ==
  /\ nClients = 0
  /\ counter = 0
  /\ picks = <<>>
  /\ tpc = <<>>

\* an empty directory tree: the directories below the root, the files
EmptyTree == [dirs |-> {}, files |-> <<>>]

\* nothing is ingested
IngestIdle ==
  /\ disk = EmptyTree
  /\ disk2 = EmptyTree
  /\ ing = <<>>

\* findKey is not called
KeyIdle ==
  /\ XMIT_KEY = <<"unset">>
  /\ keyFile = <<"unreadable">>
  /\ foundKey = <<"none">>

\* no endpoint method is called
NoCall == [pc |-> "idle"]

\* no progress reader is made
ReaderIdle ==
  /\ reader = [total |-> 0, read |-> 0, shown |-> <<>>, delivered |-> <<>>]
  /\ readN = 0
  /\ readErr = "nil"
  /\ endMessages = 0

\* a configuration file with no entry
NoConfig == [Fallback |-> <<>>, FourOFour |-> <<>>, Redirects |-> {}, Forms |-> <<>>]

\* no request was served
NoResponse == [kind |-> "none", status |-> 0, realp |-> <<>>]

\* no preview server runs
PreviewIdle ==
  /\ siteFiles = {}
  /\ cfg = NoConfig
  /\ response = NoResponse

ClientIdle == KeyIdle /\ call = NoCall /\ ReaderIdle /\ PreviewIdle /\ discovery = "none"

(***************************************************************************)
(* findKey (key.go)                                                        *)
(*                                                                         *)
(* A string is the sequence of its characters.                             *)
(***************************************************************************)

\* the characters of the keys and of the key file: two white space
\* characters and one that is none
Chars == {" ", "\n", "k"}

Strings == UNION {[1..n -> Chars] : n \in 0..MaxLen}

IsSpace(c) == c \in {" ", "\n"}

\* strings.TrimSpace: the string without its leading and trailing white space
TrimSpace(s) ==
  LET solid == {i \in DOMAIN s : ~IsSpace(s[i])}
  IN IF solid = {}
     THEN <<>>
     ELSE SubSeq(s, CHOOSE i \in solid : \A j \in solid : i <= j,
                    CHOOSE i \in solid : \A j \in solid : j <= i)

\* a lookup that prefers the key file to the environment
findKeyFileFirst(env, file) ==
  IF file[1] = "readable"
  THEN TrimSpace(file[2])
  ELSE IF env[1] = "set" THEN env[2] ELSE <<>>

\* key.go:16-24
findKey(env, file) ==
  IF env[1] = "set"
  THEN env[2]
  ELSE IF file[1] = "readable"
       THEN TrimSpace(file[2])
       ELSE <<>>

InitKey ==
  /\ ChunkIdle
  /\ UploadIdle
  /\ DownloadIdle
  /\ PoolIdle
  /\ IngestIdle
  /\ call = NoCall
  /\ ReaderIdle
  /\ discovery = "none"
  /\ PreviewIdle
  /\ XMIT_KEY \in {<<"unset">>} \cup {<<"set", s>> : s \in Strings}
  /\ keyFile \in {<<"unreadable">>} \cup {<<"readable", s>> : s \in Strings}
  /\ foundKey = <<"none">>

CallFindKey ==
  /\ foundKey = <<"none">>
  /\ foundKey' = <<"key", findKey(XMIT_KEY, keyFile)>>
  /\ UNCHANGED <<chunkVars, uploadVars, workerVars, downloadVars, poolVars, ingestVars,
                 callVars, readerVars, previewVars, discovery, XMIT_KEY, keyFile>>

NextKey == CallFindKey

SpecKey == InitKey /\ [][NextKey]_vars


(***************************************************************************)
(* Specification of chunkSlice on arbitrary inputs                         *)
(***************************************************************************)
ChunkBounds == {0, 1, ChunkMaxSize}

InitChunk ==
  /\ ClientIdle
  /\ csData \in SeqsUpTo(Bodies, MaxLen)
  /\ csMax \in ChunkBounds
  /\ csResult = <<>>
  /\ csDone = FALSE
  /\ UploadIdle
  /\ DownloadIdle
  /\ PoolIdle
  /\ IngestIdle

CallChunkSlice ==
  /\ ~csDone
  /\ csResult' = chunkSlice(csData, csMax)
  /\ csDone' = TRUE
  /\ UNCHANGED <<clientVars, csData, csMax, uploadVars, workerVars, downloadVars, poolVars, ingestVars>>

NextChunk == CallChunkSlice

SpecChunk == InitChunk /\ [][NextChunk]_vars

(***************************************************************************)
(* upload (upload.go): the invocation up to the chunk phase                *)
(***************************************************************************)
Init ==
  /\ ClientIdle
  /\ ChunkIdle
  /\ DownloadIdle
  /\ PoolIdle
  /\ IngestIdle
  /\ envUp \in EnvValues
  /\ key \in {"", "key"}
  /\ pc = "init"
  /\ failedAt = "none"
  /\ uploadParallelism = 0
  /\ contents = <<>>
  /\ bbh = 0
  /\ suggest = NoExchange
  /\ bundle = NoExchange
  /\ finalize = NoExchange
  /\ toUpload = <<>>
  /\ chunks = <<>>
  /\ reported = {}
  /\ wpc = <<>>
  /\ started = <<>>
  /\ held = 0
  /\ acquired = <<>>
  /\ released = <<>>
  /\ releases = <<>>
  /\ results = <<>>

\* log.Fatalf: the process ends
Fatal(phase) ==
  /\ pc' = "failed"
  /\ failedAt' = phase

\* upload.go:23: whether upload was given no key
KeyMissingNever == FALSE

KeyMissing == key = ""

\* upload.go:15-25: discovery, then the key check
Discover ==
  /\ pc = "init"
  /\ \E d \in DiscoveryOutcomes :
       /\ discovery' = d
       /\ IF DiscoverFails(d) THEN Fatal("discover")
          ELSE IF KeyMissing THEN Fatal("key")
          ELSE pc' = "resolved" /\ UNCHANGED failedAt
  /\ UNCHANGED <<keyVars, callVars, readerVars, previewVars, chunkVars, downloadVars, poolVars, ingestVars, workerVars, envUp, key, uploadParallelism, contents, bbh,
                 suggest, bundle, finalize, toUpload, chunks, reported>>

\* upload.go:27-37: the concurrency cap and the parallel uploader
CreateUploader ==
  /\ pc = "resolved"
  /\ \E ok \in BOOLEAN :
       IF ok
       THEN /\ uploadParallelism' = ParallelismOf(envUp)
            /\ pc' = "ready"
            /\ UNCHANGED failedAt
       ELSE /\ Fatal("uploader")
            /\ UNCHANGED uploadParallelism
  /\ UNCHANGED <<clientVars, chunkVars, downloadVars, poolVars, ingestVars, workerVars, envUp, key, contents, bbh,
                 suggest, bundle, finalize, toUpload, chunks, reported>>

\* upload.go:41-43: an error of ingest ends the process
IngestErrorLogged == pc' = "bundled" /\ failedAt' = "ingest"

IngestError == Fatal("ingest")

\* upload.go:39-55: ingestion, the manifest and its hash
Ingest ==
  /\ pc = "ready"
  /\ \E ok \in BOOLEAN :
       IF ok
       THEN /\ contents' = ContentMapOf(TreeFiles)
            /\ bbh' = ManifestHashOf(TreeFiles)
            /\ pc' = "bundled"
            /\ UNCHANGED failedAt
       ELSE /\ IngestError
            /\ UNCHANGED <<contents, bbh>>
  /\ UNCHANGED <<clientVars, chunkVars, downloadVars, poolVars, ingestVars, workerVars, envUp, key, uploadParallelism,
                 suggest, bundle, finalize, toUpload, chunks, reported>>

\* upload.go:58: the Suggest request leaves
SuggestIssue ==
  /\ pc = "bundled"
  /\ suggest' = [suggest EXCEPT !.state = "issued", !.id = bbh]
  /\ pc' = "suggesting"
  /\ UNCHANGED <<clientVars, chunkVars, downloadVars, poolVars, ingestVars, workerVars, envUp, key, failedAt, uploadParallelism, contents, bbh,
                 bundle, finalize, toUpload, chunks, reported>>

\* upload.go:59-66: the Suggest call is accepted when it returned no error
\* and the response reports success
SuggestAcceptedUnchecked(o) == ErrOf(o) = "none"

SuggestAccepted(o) == ErrOf(o) = "none" /\ o # "refused"

\* upload.go:58-70: the Suggest call returns and is checked
SuggestReturn ==
  /\ pc = "suggesting"
  /\ \E o \in Outcomes :
       IF SuggestAccepted(o)
       THEN \E p \in BOOLEAN, m \in MissingLists(contents, MaxParts) :
              /\ suggest' = [suggest EXCEPT !.state = "answered", !.outcome = o,
                                          !.present = p, !.missing = m]
              /\ toUpload' = AppendParts(toUpload, contents, m)
              /\ pc' = "suggested"
              /\ UNCHANGED failedAt
       ELSE /\ suggest' = [suggest EXCEPT !.state = "answered", !.outcome = o]
            /\ Fatal("suggest")
            /\ UNCHANGED toUpload
  /\ UNCHANGED <<clientVars, chunkVars, downloadVars, poolVars, ingestVars, workerVars, envUp, key, uploadParallelism, contents, bbh,
                 bundle, finalize, chunks, reported>>

\* upload.go:72: whether the manifest is sent
NeedsBundleAlways == TRUE

NeedsBundle == ~suggest.present

\* upload.go:58-73: UploadBundle is called after Suggest has been checked
BundleDueEarly == pc \in {"bundled", "suggested"} /\ NeedsBundle

BundleDue == pc = "suggested" /\ NeedsBundle

\* upload.go:72-73: the UploadBundle request leaves
BundleIssue ==
  /\ BundleDue
  /\ bundle' = [bundle EXCEPT !.state = "issued"]
  /\ pc' = "uploading_manifest"
  /\ UNCHANGED <<clientVars, chunkVars, downloadVars, poolVars, ingestVars, workerVars, envUp, key, failedAt, uploadParallelism, contents, bbh,
                 suggest, finalize, toUpload, chunks, reported>>

\* upload.go:72, 86: the manifest is known to the server, nothing is sent
BundleSkip ==
  /\ pc = "suggested"
  /\ ~NeedsBundle
  /\ pc' = "missing_known"
  /\ UNCHANGED <<clientVars, chunkVars, downloadVars, poolVars, ingestVars, workerVars, envUp, key, failedAt, uploadParallelism, contents, bbh,
                 suggest, bundle, finalize, toUpload, chunks, reported>>

\* upload.go:74-81: the UploadBundle call is accepted when it returned no
\* error and the response reports success
BundleAcceptedUnchecked(o) == ErrOf(o) = "none"

BundleAccepted(o) == ErrOf(o) = "none" /\ o # "refused"

\* upload.go:73-85: the UploadBundle call returns and is checked
BundleReturn ==
  /\ pc = "uploading_manifest"
  /\ \E o \in Outcomes :
       IF BundleAccepted(o)
       THEN \E m \in MissingLists(contents, MaxParts - Len(toUpload)), id \in {bbh, UnknownHash} :
              /\ bundle' = [bundle EXCEPT !.state = "answered", !.outcome = o,
                                         !.missing = m, !.id = id]
              /\ toUpload' = AppendParts(toUpload, contents, m)
              /\ pc' = "missing_known"
              /\ UNCHANGED failedAt
       ELSE /\ bundle' = [bundle EXCEPT !.state = "answered", !.outcome = o]
            /\ Fatal("bundle")
            /\ UNCHANGED toUpload
  /\ UNCHANGED <<clientVars, chunkVars, downloadVars, poolVars, ingestVars, workerVars, envUp, key, uploadParallelism, contents, bbh,
                 suggest, finalize, chunks, reported>>

(***************************************************************************)
(* The chunk phase: sort, chunkSlice, UploadChunksParallel                 *)
(***************************************************************************)
\* upload.go:88: whether there is a chunk phase
HasPartsAlways == TRUE

HasParts == Len(toUpload) > 0

Workers == DOMAIN wpc

\* upload.go:88-98: sort by decreasing size, chunk, and start one worker per
\* chunk, each waiting for its start signal; worker 1's signal is given at once
StartChunks ==
  /\ pc = "missing_known"
  /\ HasParts
  /\ \E sorted \in SortedByDecreasingSize(toUpload) :
       /\ toUpload' = sorted
       /\ chunks' = chunkSlice(sorted, ChunkMaxSize)
  /\ pc' = "uploading_parts"
  /\ wpc' = [i \in 1..Len(chunks') |-> "wait"]
  /\ started' = [i \in 1..Len(chunks') |-> i = 1]
  /\ held' = 0
  /\ acquired' = [i \in 1..Len(chunks') |-> FALSE]
  /\ released' = [i \in 1..Len(chunks') |-> FALSE]
  /\ releases' = [i \in 1..Len(chunks') |-> 0]
  /\ results' = [i \in 1..Len(chunks') |-> "none"]
  /\ UNCHANGED <<clientVars, chunkVars, downloadVars, poolVars, ingestVars, envUp, key, failedAt, uploadParallelism, contents, bbh,
                 suggest, bundle, finalize, reported>>

\* the start signal of the next worker is given
SignalAll(i) ==
  started' = [j \in Workers |-> TRUE]

SignalNext(i) ==
  started' = [j \in Workers |-> started[j] \/ j = i + 1]

\* the capacity of the send semaphore
SemCapacity == uploadParallelism

\* whether a release by worker i gives a slot back: only the first one does
\* (compare-and-swap on the worker's "released" flag)
GivesBackAlways(i) == TRUE

GivesBack(i) == ~released[i]

\* worker i releases its send slot
ReleaseSlot(i) ==
  /\ released' = [released EXCEPT ![i] = TRUE]
  /\ held' = IF GivesBack(i) THEN held - 1 ELSE held
  /\ releases' = [releases EXCEPT ![i] = IF GivesBack(i) THEN @ + 1 ELSE @]

\* worker i has its start signal and encodes its request; when encoding
\* fails it records the error and lets the next worker start
WorkerEncode(i) ==
  /\ pc = "uploading_parts"
  /\ wpc[i] = "wait"
  /\ started[i]
  /\ \E ok \in BOOLEAN :
       IF ok
       THEN /\ wpc' = [wpc EXCEPT ![i] = "acquire"]
            /\ UNCHANGED <<started, results>>
       ELSE /\ wpc' = [wpc EXCEPT ![i] = "done"]
            /\ results' = [results EXCEPT ![i] = "err"]
            /\ SignalNext(i)
  /\ UNCHANGED <<clientVars, chunkVars, downloadVars, poolVars, ingestVars, uploadVars, held, acquired, released, releases>>

\* worker i takes a slot of the send semaphore, then lets the next worker start
WorkerAcquire(i) ==
  /\ pc = "uploading_parts"
  /\ wpc[i] = "acquire"
  /\ held < SemCapacity
  /\ held' = held + 1
  /\ acquired' = [acquired EXCEPT ![i] = TRUE]
  /\ SignalNext(i)
  /\ wpc' = [wpc EXCEPT ![i] = "sending"]
  /\ UNCHANGED <<clientVars, chunkVars, downloadVars, poolVars, ingestVars, uploadVars, released, releases, results>>

\* the request body of worker i has been read to EOF: the slot is released,
\* the response is awaited
WorkerBodyEOFKeepsSlot(i) ==
  /\ pc = "uploading_parts"
  /\ wpc[i] = "sending"
  /\ wpc' = [wpc EXCEPT ![i] = "awaiting"]
  /\ UNCHANGED <<clientVars, chunkVars, downloadVars, poolVars, ingestVars, uploadVars, started, acquired, results,
                 held, released, releases>>

WorkerBodyEOF(i) ==
  /\ pc = "uploading_parts"
  /\ wpc[i] = "sending"
  /\ ReleaseSlot(i)
  /\ wpc' = [wpc EXCEPT ![i] = "awaiting"]
  /\ UNCHANGED <<clientVars, chunkVars, downloadVars, poolVars, ingestVars, uploadVars, started, acquired, results>>

\* the request of worker i could not be built, or the transport failed before
\* the body was read to EOF: the error path releases the slot
WorkerSendFails(i) ==
  /\ pc = "uploading_parts"
  /\ wpc[i] = "sending"
  /\ ReleaseSlot(i)
  /\ wpc' = [wpc EXCEPT ![i] = "done"]
  /\ results' = [results EXCEPT ![i] = "err"]
  /\ UNCHANGED <<clientVars, chunkVars, downloadVars, poolVars, ingestVars, uploadVars, started, acquired>>

\* what worker i stores in results[i] for an outcome of its exchange
ResultOf(o) == IF ErrOf(o) = "err" THEN "err" ELSE o

\* the exchange of worker i ends; the error path releases the slot again,
\* which the "released" flag turns into a no-op
WorkerResponse(i) ==
  /\ pc = "uploading_parts"
  /\ wpc[i] = "awaiting"
  /\ \E o \in Outcomes :
       /\ results' = [results EXCEPT ![i] = ResultOf(o)]
       /\ IF ErrOf(o) = "err"
          THEN ReleaseSlot(i)
          ELSE UNCHANGED <<held, released, releases>>
  /\ wpc' = [wpc EXCEPT ![i] = "done"]
  /\ UNCHANGED <<clientVars, chunkVars, downloadVars, poolVars, ingestVars, uploadVars, started, acquired>>

\* UploadChunksParallel returns when every worker has finished
AllWorkersDone == \A i \in Workers : wpc[i] = "done"

\* upload.go:101-109: the chunks whose failure the loop reports before the
\* process ends: the first result, in index order, with an error or success=false
FailedChunksErrOnly(res) == {i \in DOMAIN res : res[i] = "err"}

FailedChunks(res) == {i \in DOMAIN res : res[i] # "ok"}

ReportedAll(res) == FailedChunks(res)

Reported(res) ==
  {i \in FailedChunks(res) : \A j \in FailedChunks(res) : i <= j}

\* upload.go:98-110: UploadChunksParallel has returned, the results are checked
CheckResults ==
  /\ pc = "uploading_parts"
  /\ AllWorkersDone
  /\ reported' = Reported(results)
  /\ IF FailedChunks(results) # {}
     THEN Fatal("parts")
     ELSE pc' = "parts_ok" /\ UNCHANGED failedAt
  /\ UNCHANGED <<clientVars, chunkVars, downloadVars, poolVars, ingestVars, workerVars, envUp, key, uploadParallelism, contents, bbh,
                 suggest, bundle, finalize, toUpload, chunks>>

\* upload.go:88, 112: Finalize is called after the chunk phase, or at once
\* when there is nothing to upload
MayFinalize ==
  \/ pc = "parts_ok"
  \/ pc = "missing_known" /\ ~HasParts

\* upload.go:112: the ID Finalize names
FinalizeIdFromBundle == IF bundle.state = "answered" THEN bundle.id ELSE bbh

FinalizeId == bbh

\* upload.go:112: the Finalize request leaves
FinalizeIssue ==
  /\ MayFinalize
  /\ finalize' = [finalize EXCEPT !.state = "issued", !.id = FinalizeId]
  /\ pc' = "finalizing"
  /\ UNCHANGED <<clientVars, chunkVars, downloadVars, poolVars, ingestVars, workerVars, envUp, key, failedAt, uploadParallelism, contents, bbh,
                 suggest, bundle, toUpload, chunks, reported>>

\* upload.go:113-120: the Finalize call is accepted when it returned no error
\* and the response reports success
FinalizeAccepted(o) == ErrOf(o) = "none" /\ o # "refused"

\* upload.go:112-120: the Finalize call returns and is checked
FinalizeReturn ==
  /\ pc = "finalizing"
  /\ \E o \in Outcomes :
       /\ finalize' = [finalize EXCEPT !.state = "answered", !.outcome = o]
       /\ IF FinalizeAccepted(o)
          THEN pc' = "done" /\ UNCHANGED failedAt
          ELSE Fatal("finalize")
  /\ UNCHANGED <<clientVars, chunkVars, downloadVars, poolVars, ingestVars, workerVars, envUp, key, uploadParallelism, contents, bbh,
                 suggest, bundle, toUpload, chunks, reported>>

Next ==
  \/ Discover
  \/ CreateUploader
  \/ Ingest
  \/ SuggestIssue
  \/ SuggestReturn
  \/ BundleIssue
  \/ BundleSkip
  \/ BundleReturn
  \/ StartChunks
  \/ \E i \in Workers : WorkerEncode(i)
  \/ \E i \in Workers : WorkerAcquire(i)
  \/ \E i \in Workers : WorkerBodyEOF(i)
  \/ \E i \in Workers : WorkerSendFails(i)
  \/ \E i \in Workers : WorkerResponse(i)
  \/ CheckResults
  \/ FinalizeIssue
  \/ FinalizeReturn

Spec == Init /\ [][Next]_vars

(***************************************************************************)
(* Directory trees, ingest and traverse (key.go), the manifest bytes       *)
(*                                                                         *)
(* A tree is given by the paths of its directories and of its files,       *)
(* relative to the directory handed to ingest.                             *)
(***************************************************************************)
TreeDirPaths == {<<"s">>, <<".git">>}

TreeFilePaths == {<<"a">>, <<"s", "a">>, <<".git", "a">>, <<".git">>}

\* the bytes of the files: empty, or the bytes of body 1
TreeBodies == {0, 1}

UpDir(p) == SubSeq(p, 1, Len(p) - 1)

BaseName(p) == p[Len(p)]

WellFormedTree(T) ==
  /\ T.dirs \cap DOMAIN T.files = {}
  /\ \A q \in T.dirs \cup DOMAIN T.files : UpDir(q) = <<>> \/ UpDir(q) \in T.dirs

Trees ==
  {T \in {[dirs |-> D, files |-> F] :
            D \in SUBSET TreeDirPaths,
            F \in UNION {[P -> TreeBodies] : P \in SUBSET TreeFilePaths}} :
     WellFormedTree(T)}

\* os.ReadDir(p): the entries of directory p
ReadDir(T, p) == {q \in T.dirs \cup DOMAIN T.files : UpDir(q) = p}

\* entry.IsDir()
IsDir(T, q) == q \in T.dirs

\* key.go:67-71: the entries traverse passes over
SkipsEntryNever(name, isDir) == FALSE

SkipsEntry(name, isDir) == isDir /\ name = ".git"

Kept(T, p) == {q \in ReadDir(T, p) : ~SkipsEntry(BaseName(q), IsDir(T, q))}

\* key.go:57-91: the node built for directory p
RECURSIVE traverse(_, _)
traverse(T, p) ==
  [hash |-> 0,
   children |-> [n \in {<<BaseName(q)>> : q \in Kept(T, p)} |->
                   IF IsDir(T, p \o n)
                   THEN traverse(T, p \o n)
                   ELSE [hash |-> HashOf(T.files[p \o n]), children |-> <<>>]]]

\* the files traverse reads below directory p
RECURSIVE FilesRead(_, _)
FilesRead(T, p) ==
  {q \in Kept(T, p) : ~IsDir(T, q)}
    \cup UNION {FilesRead(T, q) : q \in {x \in Kept(T, p) : IsDir(T, x)}}

\* a contents map with the files below .git as well
ContentsOfAllFiles(T) == ContentMapOf({T.files[q] : q \in DOMAIN T.files})

\* key.go:49-55, 88: the contents map after ingest
ContentsOfTree(T) == ContentMapOf({T.files[q] : q \in FilesRead(T, <<>>)})

\* the entry names of the trees
EntryNames == {"a", "s", ".git"}

\* the orders in which the encoder may meet the keys of a children map (the
\* iteration order of a Go map is not fixed)
IterationOrders ==
  {f \in [EntryNames -> 1..Cardinality(EntryNames)] :
     \A x, y \in EntryNames : x # y => f[x] # f[y]}

KeysInOrder(keys, iter) ==
  CHOOSE k \in [1..Cardinality(keys) -> keys] :
    \A i, j \in 1..Cardinality(keys) : i < j => iter[k[i][1]] < iter[k[j][1]]

\* the order of cbor.CanonicalEncOptions (SortCanonical): shorter keys
\* first, keys of one length bytewise
CanonicalRank(name) ==
  CASE name = "a" -> 1
    [] name = "s" -> 2
    [] name = ".git" -> 3
    [] OTHER -> 4

SortNone(keys) == keys

SortCanonical(keys) ==
  SortSeq(keys, LAMBDA x, y : CanonicalRank(x[1]) < CanonicalRank(y[1]))

\* upload.go:44: uploader.EncMode().Marshal(b.Node)
RECURSIVE Marshal(_, _)
Marshal(node, iter) ==
  IF node.hash # 0
  THEN [hash |-> node.hash, entries |-> <<>>]
  ELSE LET keys == SortCanonical(KeysInOrder(DOMAIN node.children, iter))
       IN [hash |-> 0,
           entries |-> [i \in 1..Len(keys) |->
                          <<keys[i], Marshal(node.children[keys[i]], iter)>>]]

\* serve.go:329-332: the node decoded from marshalled bytes
RECURSIVE Unmarshal(_)
Unmarshal(enc) ==
  [hash |-> enc.hash,
   children |-> [n \in {enc.entries[i][1] : i \in DOMAIN enc.entries} |->
                   Unmarshal(enc.entries[CHOOSE i \in DOMAIN enc.entries :
                                                  enc.entries[i][1] = n][2])]]

\* upload.go:55: blake3.Sum256 of the manifest bytes, injective on them
BundleIdOf(bytes) == [sum |-> bytes]

\* what one call of ingest followed by Marshal yields
Ingestion(T, iter) ==
  [ok |-> TRUE,
   node |-> traverse(T, <<>>),
   bytes |-> Marshal(traverse(T, <<>>), iter),
   contents |-> ContentsOfTree(T)]

\* ingest returned an error (os.ReadDir or os.ReadFile failed)
IngestionFailed == [ok |-> FALSE, node |-> DirNode(<<>>), bytes |-> EmptyBundle, contents |-> <<>>]

InitIngest ==
  /\ ClientIdle
  /\ ChunkIdle
  /\ UploadIdle
  /\ DownloadIdle
  /\ PoolIdle
  /\ disk \in Trees
  /\ disk2 \in Trees
  /\ ing = <<>>

\* upload.go:40-47: the first call ingests disk, the second disk2
IngestTree ==
  /\ Len(ing) < 2
  /\ \E ok \in BOOLEAN, iter \in IterationOrders :
       ing' = Append(ing, IF ok
                          THEN Ingestion(IF Len(ing) = 0 THEN disk ELSE disk2, iter)
                          ELSE IngestionFailed)
  /\ UNCHANGED <<clientVars, chunkVars, uploadVars, workerVars, downloadVars, poolVars, disk, disk2>>

NextIngest == IngestTree

SpecIngest == InitIngest /\ [][NextIngest]_vars

(***************************************************************************)
(* Paths and the file system (download)                                    *)
(*                                                                         *)
(* A path is the sequence of its segments; every path is absolute, <<>> is *)
(* the root directory "/".  A child name of the manifest is the sequence   *)
(* of the segments its string splits into at the separator.                *)
(***************************************************************************)
\* filepath.Clean of an absolute path
RECURSIVE CleanLoop(_, _)
CleanLoop(segs, acc) ==
  IF segs = <<>> THEN acc
  ELSE LET x == Head(segs)
       IN IF x \in {"", "."} THEN CleanLoop(Tail(segs), acc)
          ELSE IF x = ".."
          THEN CleanLoop(Tail(segs), IF acc = <<>> THEN acc ELSE SubSeq(acc, 1, Len(acc) - 1))
          ELSE CleanLoop(Tail(segs), Append(acc, x))

Clean(segs) == CleanLoop(segs, <<>>)

\* filepath.Join(base, name)
Join(base, name) == Clean(base \o name)

\* filepath.Abs of a path that is absolute already
Abs(p) == Clean(p)

\* strings.HasPrefix(p, base + separator): the string of "/" is "/", so
\* nothing starts with "/" + separator
HasPrefixWithSeparator(p, base) ==
  /\ base # <<>>
  /\ Len(p) > Len(base)
  /\ SubSeq(p, 1, Len(base)) = base

\* safePath (serve.go:338-353): whether the child name is accepted
SafePathUnchecked(base, name) == TRUE

SafePath(base, name) ==
  \/ HasPrefixWithSeparator(Abs(Join(base, name)), Abs(base))
  \/ Abs(Join(base, name)) = Abs(base)

Prefixes(p) == {SubSeq(p, 1, k) : k \in 0..Len(p)}

ParentOf(p) == SubSeq(p, 1, Len(p) - 1)

\* os.MkdirAll(p): fails when a component of p is a file, else makes the
\* missing directories
MkdirAllOk(p) == \A q \in Prefixes(Clean(p)) : q \notin DOMAIN fsFiles

\* os.WriteFile(p): needs an existing parent directory and no directory at p
WriteFileOk(p) ==
  /\ p # <<>>
  /\ ParentOf(p) \in fsDirs
  /\ p \notin fsDirs

\* os.ReadFile(p) succeeds
ReadFileOk(p) == p \in DOMAIN fsFiles

(***************************************************************************)
(* The manifests a server may send                                         *)
(***************************************************************************)
\* the destination directory given to download
RootDest == <<"d">>

FileHashes == {HashOf(1), HashOf(2)}

\* child names of the root: "a", "b", ".", "..", "../e"
Names == {<<"a">>, <<"b">>, <<".">>, <<"..">>, <<"..", "e">>}

\* child names below the root: "a", "..", "../../e"
SubNames == {<<"a">>, <<"..">>, <<"..", "..", "e">>}

SubNodes ==
  {FileNode(h) : h \in FileHashes}
    \cup {DirNode(<<>>)}
    \cup {DirNode([n \in {m} |-> FileNode(HashOf(1))]) : m \in SubNames}

Manifests ==
  {DirNode(f) : f \in UNION {[S -> SubNodes] :
                               S \in {T \in SUBSET Names : Cardinality(T) <= MaxChildren}}}

\* the bytes a server may answer a DownloadParts request for h with: the
\* bytes that hash to h, or other bytes
ServedBodies(h) == {1, 2}

\* the file systems a download may start in: the destination is absent, or
\* it exists and holds a file "a"
InitialFiles == {<<>>, (<<"d", "a">> :> 1)}

DirsFor(files) == UNION {Prefixes(ParentOf(p)) : p \in DOMAIN files} \cup {<<>>}

(***************************************************************************)
(* download and downloadTraversal (serve.go)                               *)
(***************************************************************************)
RECURSIVE NodeAt(_, _)
NodeAt(node, addr) ==
  IF addr = <<>> THEN node ELSE NodeAt(node.children[Head(addr)], Tail(addr))

\* the calls made for the children of the call at address a
ChildrenOf(a) == {x \in DOMAIN tasks : Len(x) = Len(a) + 1 /\ ParentOf(x) = a}

NewTask(dest, failed) == [pc |-> "start", dest |-> dest, errors |-> failed, err |-> FALSE]

InitDownload ==
  /\ XMIT_KEY \in {<<"unset">>, <<"set", <<>>>>}
  /\ keyFile \in {<<"unreadable">>, <<"readable", <<"k", "\n">>>>}
  /\ foundKey = <<"none">>
  /\ call = NoCall
  /\ ReaderIdle
  /\ discovery = "none"
  /\ PreviewIdle
  /\ ChunkIdle
  /\ UploadIdle
  /\ PoolIdle
  /\ IngestIdle
  /\ envDown \in EnvValues
  /\ downloadParallelism = 0
  /\ dheld = 0
  /\ server = AnyServer
  /\ dpc = "init"
  /\ run = 1
  /\ manifest = DirNode(<<>>)
  /\ tasks = <<>>
  /\ fsFiles \in InitialFiles
  /\ fsDirs = DirsFor(fsFiles)
  /\ issued = {}
  /\ written = {}
  /\ result = "none"

\* the manifests DownloadBundle may decode to: what a faithful server
\* stored; else any manifest, the same one when the download is repeated
ManifestsServed ==
  IF server.kind = "faithful" THEN {Unmarshal(server.bundle)}
  ELSE IF run = 1 THEN Manifests ELSE {manifest}

\* the Parts a successful DownloadParts response for h may hold: none or
\* one part; a faithful server sends the part it stored under h
PartsServed(h) ==
  IF server.kind = "faithful"
  THEN IF h \in DOMAIN server.parts THEN {<<server.parts[h]>>} ELSE {<<>>}
  ELSE SeqsUpTo(ServedBodies(h), 1)

\* main: the download command ends the process when findKey returns ""
DownloadKeyMissing == findKey(XMIT_KEY, keyFile) = <<>>

\* main, then serve.go:301-334: the key check; the concurrency cap,
\* discovery, the downloader, DownloadBundle, decoding.  A semaphore is a
\* channel of the capacity given, which cannot be made with a negative one
DownloadBegin ==
  /\ dpc = "init"
  /\ IF DownloadKeyMissing
     THEN /\ dpc' = "done"
          /\ result' = "err"
          /\ UNCHANGED <<manifest, tasks, discovery, downloadParallelism>>
     ELSE /\ downloadParallelism' = ParallelismOf(envDown)
          /\ \E d \in DiscoveryOutcomes, ok \in BOOLEAN :
               /\ discovery' = d
               /\ IF ~DiscoverFails(d) /\ ok /\ ParallelismOf(envDown) >= 0
                  THEN /\ \E m \in ManifestsServed : manifest' = m
                       /\ tasks' = (<<>> :> NewTask(RootDest, 0))
                       /\ dpc' = "running"
                       /\ UNCHANGED result
                  ELSE /\ dpc' = "done"
                       /\ result' = "err"
                       /\ UNCHANGED <<manifest, tasks>>
  /\ UNCHANGED <<keyVars, callVars, readerVars, previewVars, chunkVars, uploadVars, workerVars, poolVars, ingestVars, run, fsDirs, fsFiles, issued, written,
                 envDown, dheld, server>>

\* the call at address a returns; an error is appended to the errors of the
\* call that started it (serve.go:397-401), the root call's return is
\* download's (serve.go:334)
FinishForgets(T, a, err) ==
  /\ tasks' = [x \in DOMAIN T |->
                 IF x = a THEN [T[x] EXCEPT !.pc = "done", !.err = err] ELSE T[x]]
  /\ IF a = <<>>
     THEN dpc' = "done" /\ result' = (IF err THEN "err" ELSE "ok")
     ELSE UNCHANGED <<dpc, result>>

Finish(T, a, err) ==
  /\ tasks' = [x \in DOMAIN T |->
                 IF x = a THEN [T[x] EXCEPT !.pc = "done", !.err = err]
                 ELSE IF a # <<>> /\ x = ParentOf(a) /\ err
                      THEN [T[x] EXCEPT !.errors = @ + 1]
                      ELSE T[x]]
  /\ IF a = <<>>
     THEN dpc' = "done" /\ result' = (IF err THEN "err" ELSE "ok")
     ELSE UNCHANGED <<dpc, result>>

\* serve.go:379-403: a directory node: MkdirAll, then one call per child
\* whose name safePath accepts
DirStart(a) ==
  /\ dpc = "running"
  /\ a \in DOMAIN tasks
  /\ tasks[a].pc = "start"
  /\ NodeAt(manifest, a).hash = 0
  /\ LET dest == tasks[a].dest
         ch == NodeAt(manifest, a).children
         safe == {n \in DOMAIN ch : SafePath(dest, n)}
         new == {Append(a, n) : n \in safe}
     IN IF ~MkdirAllOk(dest)
        THEN /\ Finish(tasks, a, TRUE)
             /\ UNCHANGED fsDirs
        ELSE /\ fsDirs' = fsDirs \cup Prefixes(Clean(dest))
             /\ tasks' = [x \in DOMAIN tasks \cup new |->
                            IF x \in new
                            THEN NewTask(Join(dest, x[Len(x)]), 0)
                            ELSE IF x = a
                            THEN [tasks[a] EXCEPT !.pc = "waiting",
                                                  !.errors = Cardinality(DOMAIN ch \ safe)]
                            ELSE tasks[x]]
             /\ UNCHANGED <<dpc, result>>
  /\ UNCHANGED <<clientVars, chunkVars, uploadVars, workerVars, poolVars, ingestVars, run, manifest, fsFiles, issued, written,
                 envDown, downloadParallelism, dheld, server>>

\* serve.go:404-411: wg.Wait, then the errors collected decide
DirFinish(a) ==
  /\ dpc = "running"
  /\ a \in DOMAIN tasks
  /\ tasks[a].pc = "waiting"
  /\ \A x \in ChildrenOf(a) : tasks[x].pc = "done"
  /\ Finish(tasks, a, tasks[a].errors > 0)
  /\ UNCHANGED <<clientVars, chunkVars, uploadVars, workerVars, poolVars, ingestVars, run, manifest, fsDirs, fsFiles, issued, written,
                 envDown, downloadParallelism, dheld, server>>

\* serve.go:358-363: the local copy is kept when its hash is the node's
CachedByName(dest, h) == ReadFileOk(dest)

Cached(dest, h) == ReadFileOk(dest) /\ HashOf(fsFiles[dest]) = h

\* serve.go:356-365: a file node: skip it, or call DownloadParts
FileStart(a) ==
  /\ dpc = "running"
  /\ a \in DOMAIN tasks
  /\ tasks[a].pc = "start"
  /\ NodeAt(manifest, a).hash # 0
  /\ IF Cached(tasks[a].dest, NodeAt(manifest, a).hash)
     THEN Finish(tasks, a, FALSE)
     ELSE /\ tasks' = [tasks EXCEPT ![a].pc = "acquiring"]
          /\ UNCHANGED <<dpc, result>>
  /\ UNCHANGED <<clientVars, chunkVars, uploadVars, workerVars, poolVars, ingestVars, run, manifest, fsDirs, fsFiles, issued, written,
                 envDown, downloadParallelism, dheld, server>>

\* the capacity of the DownloadParts semaphore
DownloadCapacityUnbounded == MaxChildren + 1

DownloadCapacity == downloadParallelism

\* DownloadParts takes a slot of the downloader's semaphore; the request leaves
FileAcquire(a) ==
  /\ dpc = "running"
  /\ a \in DOMAIN tasks
  /\ tasks[a].pc = "acquiring"
  /\ dheld < DownloadCapacity
  /\ dheld' = dheld + 1
  /\ issued' = issued \cup {a}
  /\ tasks' = [tasks EXCEPT ![a].pc = "fetching"]
  /\ UNCHANGED <<clientVars, chunkVars, uploadVars, workerVars, poolVars, ingestVars, dpc, run, manifest, fsDirs, fsFiles, written,
                 result, envDown, downloadParallelism, server>>

\* serve.go:365-378: DownloadParts returns, giving its slot back; the first
\* part is written
FileFinish(a) ==
  /\ dpc = "running"
  /\ a \in DOMAIN tasks
  /\ tasks[a].pc = "fetching"
  /\ dheld' = dheld - 1
  /\ \E o \in Outcomes, parts \in PartsServed(NodeAt(manifest, a).hash) :
       LET dest == tasks[a].dest
       IN IF o # "ok" \/ Len(parts) = 0 \/ ~WriteFileOk(dest)
          THEN /\ Finish(tasks, a, TRUE)
               /\ UNCHANGED <<fsFiles, written>>
          ELSE /\ fsFiles' = [q \in DOMAIN fsFiles \cup {dest} |->
                                IF q = dest THEN parts[1] ELSE fsFiles[q]]
               /\ written' = written \cup {dest}
               /\ Finish(tasks, a, FALSE)
  /\ UNCHANGED <<clientVars, chunkVars, uploadVars, workerVars, poolVars, ingestVars, run, manifest, fsDirs, issued,
                 envDown, downloadParallelism, server>>

\* download is run again with the same arguments after it succeeded
DownloadAgain ==
  /\ dpc = "done"
  /\ result = "ok"
  /\ run = 1
  /\ run' = 2
  /\ dpc' = "init"
  /\ tasks' = <<>>
  /\ issued' = {}
  /\ written' = {}
  /\ result' = "none"
  /\ UNCHANGED <<clientVars, chunkVars, uploadVars, workerVars, poolVars, ingestVars, manifest, fsDirs, fsFiles,
                 envDown, downloadParallelism, dheld, server>>

\* the addresses of the nodes of the manifests
Addresses == {<<>>} \cup {<<n>> : n \in Names} \cup {<<n, m>> : n \in Names, m \in SubNames}

NextDownload ==
  \/ DownloadBegin
  \/ \E a \in Addresses : DirStart(a)
  \/ \E a \in Addresses : DirFinish(a)
  \/ \E a \in Addresses : FileStart(a)
  \/ \E a \in Addresses : FileAcquire(a)
  \/ \E a \in Addresses : FileFinish(a)
  \/ DownloadAgain

SpecDownload == InitDownload /\ [][NextDownload]_vars

\* a download with a key, into an empty destination, for the integers
\* strconv.Atoi accepts around zero
InitDownloadAny ==
  /\ XMIT_KEY = <<"set", <<"k">>>>
  /\ keyFile = <<"unreadable">>
  /\ foundKey = <<"none">>
  /\ call = NoCall
  /\ ReaderIdle
  /\ discovery = "none"
  /\ PreviewIdle
  /\ ChunkIdle
  /\ UploadIdle
  /\ PoolIdle
  /\ IngestIdle
  /\ envDown \in {<<"int", v>> : v \in -1..1}
  /\ downloadParallelism = 0
  /\ dheld = 0
  /\ server = AnyServer
  /\ dpc = "init"
  /\ run = 1
  /\ manifest = DirNode(<<>>)
  /\ tasks = <<>>
  /\ fsFiles = <<>>
  /\ fsDirs = {<<>>}
  /\ issued = {}
  /\ written = {}
  /\ result = "none"

\* every call that can take a step does so in the end
SpecDownloadFair == InitDownloadAny /\ [][NextDownload]_vars /\ WF_vars(NextDownload)

(***************************************************************************)
(* Upload of a tree to a server that stores what it is sent, followed by   *)
(* the download of that bundle                                             *)
(***************************************************************************)
\* the hashes of the file nodes of a manifest
RECURSIVE HashesOf(_)
HashesOf(node) ==
  IF node.hash # 0 THEN {node.hash}
  ELSE UNION {HashesOf(node.children[n]) : n \in DOMAIN node.children}

\* the Missing lists of a server that stores faithfully: the hashes of the
\* manifest it has no part for, each once, in some order
MissingOf(bytes, parts) ==
  LET lacking == HashesOf(Unmarshal(bytes)) \ DOMAIN parts
  IN {m \in [1..Cardinality(lacking) -> lacking] :
        \A i, j \in DOMAIN m : i # j => m[i] # m[j]}

\* the parts the server holds after it stored the chunks sent, each under
\* the hash of its bytes
StoreParts(parts, sent) ==
  [h \in DOMAIN parts \cup {HashOf(sent[i]) : i \in DOMAIN sent} |->
     IF h \in DOMAIN parts THEN parts[h] ELSE h - 10]

\* the parts a server may hold before the upload
InitialParts == {<<>>, (HashOf(1) :> 1)}

InitRoundTrip ==
  /\ XMIT_KEY = <<"set", <<"k">>>>
  /\ keyFile = <<"unreadable">>
  /\ foundKey = <<"none">>
  /\ call = NoCall
  /\ ReaderIdle
  /\ discovery = "none"
  /\ PreviewIdle
  /\ ChunkIdle
  /\ UploadIdle
  /\ PoolIdle
  /\ disk \in Trees
  /\ disk2 = EmptyTree
  /\ ing = <<>>
  /\ \E parts \in InitialParts :
       server = [kind |-> "faithful", bundle |-> EmptyBundle, parts |-> parts]
  /\ envDown \in EnvValues
  /\ downloadParallelism = 0
  /\ dheld = 0
  /\ dpc = "idle"
  /\ run = 1
  /\ manifest = DirNode(<<>>)
  /\ tasks = <<>>
  /\ fsFiles = <<>>
  /\ fsDirs \in {{<<>>}, {<<>>, RootDest}}
  /\ issued = {}
  /\ written = {}
  /\ result = "none"

\* upload.go:14-121 against the faithful server: ingest, Suggest (the
\* manifest is not known), UploadBundle (its Missing list), the sorted parts
\* chunked and sent, Finalize; or a failure at some point
UploadTree ==
  /\ dpc = "idle"
  /\ ing = <<>>
  /\ \E ok \in BOOLEAN, iter \in IterationOrders :
       IF ok
       THEN LET g == Ingestion(disk, iter)
            IN /\ ing' = <<g>>
               /\ \E m \in MissingOf(g.bytes, server.parts) :
                    \E sorted \in SortedByDecreasingSize(AppendParts(<<>>, g.contents, m)) :
                      server' = [server EXCEPT
                                   !.bundle = g.bytes,
                                   !.parts = StoreParts(@, Flatten(chunkSlice(sorted, ChunkMaxSize)))]
               /\ dpc' = "init"
       ELSE /\ ing' = <<IngestionFailed>>
            /\ UNCHANGED <<server, dpc>>
  /\ UNCHANGED <<clientVars, chunkVars, uploadVars, workerVars, poolVars, disk, disk2, run, manifest, tasks,
                 fsDirs, fsFiles, issued, written, result, envDown, downloadParallelism, dheld>>

\* the addresses of the nodes of the manifests of the trees
TreeAddresses ==
  {[i \in 1..Len(q) |-> <<q[i]>>] : q \in {<<>>} \cup TreeDirPaths \cup TreeFilePaths}

NextRoundTrip ==
  \/ UploadTree
  \/ DownloadBegin
  \/ \E a \in TreeAddresses : DirStart(a)
  \/ \E a \in TreeAddresses : DirFinish(a)
  \/ \E a \in TreeAddresses : FileStart(a)
  \/ \E a \in TreeAddresses : FileAcquire(a)
  \/ \E a \in TreeAddresses : FileFinish(a)

SpecRoundTrip == InitRoundTrip /\ [][NextRoundTrip]_vars

(***************************************************************************)
(* The client pool: one pinned client per resolved address, selected by an *)
(* atomic round-robin counter                                              *)
(***************************************************************************)
\* the tasks that select clients (chunk workers, part fetches)
PoolTasks == {1, 2, 3}

InitPool ==
  /\ ClientIdle
  /\ ChunkIdle
  /\ UploadIdle
  /\ DownloadIdle
  /\ IngestIdle
  /\ nClients \in 1..MaxClients
  /\ counter = 0
  /\ picks = <<>>
  /\ tpc = [t \in PoolTasks |-> 0]

\* the atomic increment of the counter: the value the selecting task gets
NextCounterStuck(c) == c

NextCounter(c) == c + 1

\* the client selected for a counter value: modulo the number of clients
ClientIndex(c, n) == c % n

\* task t selects a client: increment, then modulo, in one atomic step
SelectClient(t) ==
  /\ tpc[t] = 0
  /\ counter < MaxSelections
  /\ counter' = NextCounter(counter)
  /\ picks' = Append(picks, ClientIndex(counter', nClients))
  /\ tpc' = [tpc EXCEPT ![t] = 1 + ClientIndex(counter', nClients)]
  /\ UNCHANGED <<clientVars, chunkVars, uploadVars, workerVars, downloadVars, ingestVars, nClients>>

\* the request of task t on its client has ended
ReturnClient(t) ==
  /\ tpc[t] # 0
  /\ tpc' = [tpc EXCEPT ![t] = 0]
  /\ UNCHANGED <<clientVars, chunkVars, uploadVars, workerVars, downloadVars, ingestVars, nClients, counter, picks>>

NextPool ==
  \/ \E t \in PoolTasks : SelectClient(t)
  \/ \E t \in PoolTasks : ReturnClient(t)

SpecPool == InitPool /\ [][NextPool]_vars


(***************************************************************************)
(* The progress reader (progress/progressReader.go)                        *)
(*                                                                         *)
(* Sizes are counted in KiB.  The reader wraps a bytes.Reader over the     *)
(* payload, whose position is the Reader's read field.                     *)
(***************************************************************************)

\* progressReader.go:31: the most bytes one Read takes from the payload
ReadLimit == 4

\* the lengths of the buffers handed to Read
BufferSizes == {1, 2, 3, ReadLimit, ReadLimit + 2}

Min(a, b) == IF a <= b THEN a ELSE b

\* progressReader.go:43-46: a progress line shows the read field; shown lists
\* the byte counts of the lines printed so far
showProgress(r) == [r EXCEPT !.shown = Append(@, r.read)]

\* progressReader.go:18-28; a payload is an encoded request and never empty;
\* delivered lists the positions of the payload handed to the caller
InitReader ==
  /\ ChunkIdle
  /\ UploadIdle
  /\ DownloadIdle
  /\ PoolIdle
  /\ IngestIdle
  /\ KeyIdle
  /\ call = NoCall
  /\ discovery = "none"
  /\ PreviewIdle
  /\ \E total \in 1..MaxPayload :
       reader = showProgress([total |-> total, read |-> 0, shown |-> <<>>,
                              delivered |-> <<>>])
  /\ readN = 0
  /\ readErr = "nil"
  /\ endMessages = 0

finishedNever(r, n) == FALSE

\* progressReader.go:32
finished(r, n) == r.read + n = r.total

\* progressReader.go:30-41, called until it has returned io.EOF; the
\* bytes.Reader returns io.EOF, with no bytes, once its position is the end;
\* elapsed tells whether the last progress line is more than a second old
Read(len) ==
  /\ reader.total > 0
  /\ readErr # "EOF"
  /\ \E elapsed \in BOOLEAN :
       LET n == Min(Min(len, ReadLimit), reader.total - reader.read)
           r == IF finished(reader, n) \/ elapsed THEN showProgress(reader) ELSE reader
       IN /\ readN' = n
          /\ readErr' = IF reader.read = reader.total THEN "EOF" ELSE "nil"
          /\ endMessages' = IF finished(reader, n) THEN endMessages + 1 ELSE endMessages
          /\ reader' = [r EXCEPT !.read = @ + n,
                                 !.delivered = @ \o [i \in 1..n |-> reader.read + i]]
  /\ UNCHANGED <<chunkVars, uploadVars, workerVars, downloadVars, poolVars, ingestVars,
                 keyVars, callVars, previewVars, discovery>>

NextReader == \E len \in BufferSizes : Read(len)

SpecReader == InitReader /\ [][NextReader]_vars


(***************************************************************************)
(* The endpoint methods of the Client (protocol/transfer.go): every one    *)
(* encodes its request, posts it and decodes the response                  *)
(***************************************************************************)

Endpoints == {"suggest", "bundle", "missing", "finalize", "dl/bundle", "dl/parts", "teams"}

\* the status codes a server may answer with
Statuses == {200, 201, 204, 400, 401, 404, 500}

\* what a call meets: whether the request encodes, whether the transport
\* delivers a response, its status, and whether its body is CBOR+zstd of
\* the response record
Calls ==
  [pc : {"start"}, endpoint : Endpoints, encodes : BOOLEAN, transport : BOOLEAN,
   status : Statuses, body : {"valid", "garbage"}, decoded : {FALSE}, result : {"none"}]

InitCall ==
  /\ ChunkIdle
  /\ UploadIdle
  /\ DownloadIdle
  /\ PoolIdle
  /\ IngestIdle
  /\ KeyIdle
  /\ ReaderIdle
  /\ discovery = "none"
  /\ PreviewIdle
  /\ call \in Calls

\* transfer.go:556-580 and the early return of the method
encodeRequest ==
  /\ call.pc = "start"
  /\ call' = IF call.encodes
             THEN [call EXCEPT !.pc = "encoded"]
             ELSE [call EXCEPT !.pc = "returned", !.result = "err"]
  /\ UNCHANGED <<chunkVars, uploadVars, workerVars, downloadVars, poolVars, ingestVars,
                 keyVars, readerVars, previewVars, discovery>>

\* a post that hands every response to the caller
postAnyStatus ==
  /\ call.pc = "encoded"
  /\ call' = IF ~call.transport
             THEN [call EXCEPT !.pc = "returned", !.result = "err"]
             ELSE [call EXCEPT !.pc = "posted"]
  /\ UNCHANGED <<chunkVars, uploadVars, workerVars, downloadVars, poolVars, ingestVars,
                 keyVars, readerVars, previewVars, discovery>>

\* transfer.go:599-618 and the early return of the method
post ==
  /\ call.pc = "encoded"
  /\ call' = IF ~call.transport \/ call.status # 200
             THEN [call EXCEPT !.pc = "returned", !.result = "err"]
             ELSE [call EXCEPT !.pc = "posted"]
  /\ UNCHANGED <<chunkVars, uploadVars, workerVars, downloadVars, poolVars, ingestVars,
                 keyVars, readerVars, previewVars, discovery>>

\* transfer.go:582-596 and the return of the method
decodeResponse ==
  /\ call.pc = "posted"
  /\ call' = [call EXCEPT !.pc = "returned", !.decoded = TRUE,
                          !.result = IF call.body = "valid" THEN "record" ELSE "err"]
  /\ UNCHANGED <<chunkVars, uploadVars, workerVars, downloadVars, poolVars, ingestVars,
                 keyVars, readerVars, previewVars, discovery>>

NextCall ==
  \/ encodeRequest
  \/ post
  \/ decodeResponse

SpecCall == InitCall /\ [][NextCall]_vars


(***************************************************************************)
(* The preview handler (preview/serve.go)                                  *)
(*                                                                         *)
(* The handler is given to http.ListenAndServe itself (serve.go:249), so   *)
(* the path of a request reaches it as the client sent it.  A URL path is  *)
(* the sequence of the segments between its slashes.                       *)
(***************************************************************************)

\* h.directory
directory == <<"srv", "site">>

\* the regular files that may exist, in the directory and next to it
PreviewFiles ==
  {<<"srv", "site", "index.html">>, <<"srv", "site", "a.html">>, <<"srv", "site", "b">>,
   <<"srv", "site", "c", "index.html">>, <<"srv", "secret">>, <<"srv", "site.html">>}

\* r.URL.Path of the requests made
URLPaths == {<<>>, <<"a">>, <<"b">>, <<"c">>, <<"old">>, <<"..", "secret">>}

\* serve.go:26-33: the file, when the path is a file and not a directory
openFile(path) == path \in siteFiles

\* serve.go:111: op + ".html"
WithHtml(op) ==
  IF op = <<>> THEN <<".html">> ELSE [op EXCEPT ![Len(op)] = @ \o ".html"]

\* serve.go:247-249; the configuration is read again for every request
\* (serve.go:36-55) from a file that does not change.  Redirects is the set
\* of URL paths that the From expression of some redirect matches.
InitPreview ==
  /\ ChunkIdle
  /\ UploadIdle
  /\ DownloadIdle
  /\ PoolIdle
  /\ IngestIdle
  /\ KeyIdle
  /\ call = NoCall
  /\ ReaderIdle
  /\ discovery = "none"
  /\ siteFiles \in SUBSET PreviewFiles
  /\ cfg \in [Fallback : {<<>>, <<"index.html">>, <<"..", "secret">>},
              FourOFour : {<<>>, <<"a.html">>, <<"..", "secret">>},
              Redirects : {{}, {<<"old">>}},
              Forms : {<<>>, <<[From |-> <<"b">>, Then |-> ""]>>,
                       <<[From |-> <<"b">>, Then |-> "/thanks"]>>}]
  /\ response = NoResponse

\* serve.go:35-157 (the headers set at 56-79 are left out); mailOk tells
\* whether sendFormByMail succeeds
ServeHTTP(method, path, mailOk) ==
  LET forms == {i \in DOMAIN cfg.Forms : cfg.Forms[i].From = path}
      op == Join(directory, path)
      index == Join(op, <<"index.html">>)
      html == WithHtml(op)
      fallback == Join(directory, cfg.Fallback)
      fourOFour == Join(directory, cfg.FourOFour)
      answer(kind, status, realp) == [kind |-> kind, status |-> status, realp |-> realp]
  IN /\ response' =
          IF method = "POST" /\ forms # {} /\ ~mailOk
          THEN answer("error", 500, <<>>)
          ELSE IF method = "POST" /\ \E i \in forms : cfg.Forms[i].Then # ""
          THEN answer("redirect", 302, <<>>)
          ELSE IF method = "POST" /\ forms = {}
          THEN answer("error", 405, <<>>)
          ELSE IF openFile(op) THEN answer("file", 200, op)
          ELSE IF openFile(index) THEN answer("file", 200, index)
          ELSE IF openFile(html) THEN answer("file", 200, html)
          ELSE IF path \in cfg.Redirects THEN answer("redirect", 307, <<>>)
          ELSE IF cfg.Fallback # <<>> /\ openFile(fallback)
          THEN answer("file", 200, fallback)
          ELSE IF cfg.FourOFour # <<>> /\ openFile(fourOFour)
          THEN answer("file", 404, fourOFour)
          ELSE answer("notfound", 404, <<>>)
     /\ UNCHANGED <<siteFiles, cfg>>
     /\ UNCHANGED <<chunkVars, uploadVars, workerVars, downloadVars, poolVars, ingestVars,
                    keyVars, callVars, readerVars, discovery>>

NextPreview ==
  \E method \in {"GET", "POST"}, path \in URLPaths, mailOk \in BOOLEAN :
    ServeHTTP(method, path, mailOk)

SpecPreview == InitPreview /\ [][NextPreview]_vars

(***************************************************************************)
(* C3: for every list of parts and every bound, the chunks returned by     *)
(* chunkSlice concatenate to the list given, and every chunk whose summed  *)
(* part size exceeds the bound holds exactly one part.                     *)
(***************************************************************************)
C3_ChunkingSound ==
  csDone =>
    /\ Flatten(csResult) = csData
    /\ \A k \in 1..Len(csResult) :
         SumLen(csResult[k]) > csMax => Len(csResult[k]) = 1

(***************************************************************************)
(* C1: with concurrency cap C (the integer UPLOAD_PARALLELISM holds, 3     *)
(* when it is unset or no integer), at most C slots of the send semaphore  *)
(* are ever held, the slots held are exactly those of the workers that     *)
(* took one and have not given it back, no worker gives a slot back twice  *)
(* or without having taken one, and a worker that took a slot has given it *)
(* back exactly once when it awaits its response or has finished, on every *)
(* path (body read to EOF, request or transport failure before EOF,        *)
(* failure of the exchange after EOF).                                     *)
(***************************************************************************)
C1_SemaphoreSafe ==
  LET cap == IF envUp[1] = "int" THEN envUp[2] ELSE 3
  IN /\ 0 <= held /\ held <= cap
     /\ held = Cardinality({i \in Workers : acquired[i] /\ releases[i] = 0})
     /\ \A i \in Workers :
          /\ releases[i] <= 1
          /\ releases[i] = 1 => acquired[i]
          /\ acquired[i] /\ wpc[i] \in {"awaiting", "done"} => releases[i] = 1
          /\ ~acquired[i] => wpc[i] \in {"wait", "acquire", "done"}

\* every slot is held, a worker is blocked on the semaphore, and a worker
\* whose send failed before EOF has given its slot back once
C1_Witness ==
  /\ envUp[1] = "int"
  /\ held = envUp[2]
  /\ \E i, j \in Workers :
       /\ wpc[i] = "acquire"
       /\ wpc[j] = "done" /\ results[j] = "err" /\ acquired[j] /\ releases[j] = 1

(***************************************************************************)
(* C2: for all chunk indices i < j, worker j holds or has held a send slot *)
(* only if worker i took its slot before, or failed to encode its request. *)
(* The completion of the exchanges is in no fixed order.                   *)
(***************************************************************************)
C2_OrderedStart ==
  \A i, j \in Workers :
    i < j /\ acquired[j] =>
      \/ acquired[i]
      \/ wpc[i] = "done" /\ results[i] = "err"

\* a later chunk has its response while an earlier one is still being sent
C2_Witness ==
  \E i, j \in Workers :
    i < j /\ wpc[j] = "done" /\ results[j] = "ok" /\ wpc[i] = "sending"

(***************************************************************************)
(* C4: the UploadBundle request and every chunk request are issued only    *)
(* after the Suggest response has been received and checked.               *)
(***************************************************************************)
C4_SuggestFirst ==
  (bundle.state # "none" \/ Workers # {} \/ finalize.state # "none") =>
    suggest.state = "answered" /\ suggest.outcome = "ok"

\* the manifest has been sent and a chunk is being sent
C4_Witness ==
  bundle.state = "answered" /\ \E i \in Workers : wpc[i] = "sending"

(***************************************************************************)
(* C5: Finalize is issued only when every chunk's exchange has ended and   *)
(* every chunk result has no error and reports success; with a chunk       *)
(* result that has an error or success=false, Finalize is not issued.      *)
(***************************************************************************)
C5_FinalizeAfterChunks ==
  finalize.state # "none" =>
    \A i \in Workers : wpc[i] = "done" /\ results[i] = "ok"

\* Finalize has been issued after a chunk phase of several chunks
C5_Witness ==
  finalize.state = "issued" /\ Len(chunks) >= 2

(***************************************************************************)
(* C6: UploadBundle is issued exactly when Suggest succeeded and reported  *)
(* Present=false: it is issued only then, and once the invocation has      *)
(* passed the point of the decision it has been issued in that case.       *)
(***************************************************************************)
C6_BundleIffAbsent ==
  /\ bundle.state # "none" =>
       suggest.state = "answered" /\ suggest.outcome = "ok" /\ ~suggest.present
  /\ (suggest.state = "answered" /\ suggest.outcome = "ok" /\ ~suggest.present
        /\ pc # "suggested") => bundle.state # "none"

\* an invocation that succeeded without sending the manifest
C6_Witness ==
  pc = "done" /\ suggest.present /\ bundle.state = "none" /\ Workers # {}

(***************************************************************************)
(* C7: once a phase has failed (transport error, status other than 200,    *)
(* undecodable response, or success=false) the invocation does not reach   *)
(* success and no request of a later phase is issued; for Suggest,         *)
(* UploadBundle and Finalize the invocation is failed at once, for a chunk *)
(* as soon as all chunks have ended.                                       *)
(***************************************************************************)
C7_FailureIsFatal ==
  LET bad(x) == x.state = "answered" /\ x.outcome # "ok"
  IN /\ bad(suggest) =>
          /\ pc = "failed" /\ failedAt = "suggest"
          /\ bundle.state = "none" /\ Workers = {} /\ finalize.state = "none"
     /\ bad(bundle) =>
          /\ pc = "failed" /\ failedAt = "bundle"
          /\ Workers = {} /\ finalize.state = "none"
     /\ (\E i \in Workers : results[i] \in {"err", "refused"}) =>
          /\ pc = "uploading_parts" \/ (pc = "failed" /\ failedAt = "parts")
          /\ finalize.state = "none"
     /\ bad(finalize) => pc = "failed" /\ failedAt = "finalize"
     /\ pc = "done" => failedAt = "none"

\* a chunk was refused by the server and the invocation has failed
C7_Witness ==
  /\ pc = "failed"
  /\ failedAt = "parts"
  /\ \E i, j \in Workers : results[i] = "refused" /\ results[j] = "ok" /\ i < j

(***************************************************************************)
(* C8 as stated: after the chunk phase the invocation reports every failed *)
(* chunk, not only the first one.                                          *)
(***************************************************************************)
C8_AllFailuresReported ==
  (pc = "failed" /\ failedAt = "parts") => reported = FailedChunks(results)

(***************************************************************************)
(* C8, amended: a failing chunk does not keep any other chunk from being   *)
(* sent and answered: the results array has one entry per chunk, entry i   *)
(* is written only by worker i, as its last step, and when the results are *)
(* examined every entry is filled; the invocation then reports the first   *)
(* failed chunk in index order, only that one, and fails.                  *)
(***************************************************************************)
C8_FirstFailureReported ==
  /\ [](/\ DOMAIN results = 1..Len(chunks)
        /\ \A i \in Workers : results[i] # "none" <=> wpc[i] = "done"
        /\ (pc \in {"parts_ok", "finalizing", "done"} \/ failedAt \in {"parts", "finalize"}) =>
             \A i \in Workers : results[i] # "none"
        /\ failedAt = "parts" =>
             /\ pc = "failed"
             /\ FailedChunks(results) # {}
             /\ reported = {CHOOSE i \in FailedChunks(results) :
                              \A j \in FailedChunks(results) : i <= j}
        /\ failedAt # "parts" => reported = {})
  /\ [][\A i \in Workers :
          (i \in DOMAIN results' /\ results'[i] # results[i]) =>
            /\ wpc[i] # "done" /\ wpc'[i] = "done"
            /\ \A j \in Workers \ {i} : wpc'[j] = wpc[j] /\ results'[j] = results[j]]_vars

\* two chunks failed, a later one succeeded, and the invocation has failed
C8_Witness ==
  /\ pc = "failed"
  /\ failedAt = "parts"
  /\ \E i, j, k \in Workers :
       i < j /\ j < k /\ results[i] = "err" /\ results[j] = "refused" /\ results[k] = "ok"

(***************************************************************************)
(* C9: whatever manifest is received, nothing is created or written        *)
(* outside the root destination directory, and when a directory of the     *)
(* manifest has a child whose name joined with that directory's            *)
(* destination canonicalises outside it, download returns an error.        *)
(***************************************************************************)
\* p is dest or lies below it
Inside(p, dest) == Len(p) >= Len(dest) /\ SubSeq(p, 1, Len(dest)) = dest

RECURSIVE HasEscapingChild(_, _)
HasEscapingChild(node, dest) ==
  /\ node.hash = 0
  /\ \E n \in DOMAIN node.children :
       \/ ~Inside(Clean(dest \o n), Clean(dest))
       \/ HasEscapingChild(node.children[n], Clean(dest \o n))

C9_PathSafety ==
  /\ \A p \in written \cup DOMAIN fsFiles : Inside(p, RootDest)
  /\ \A p \in fsDirs : Inside(p, RootDest) \/ p \in Prefixes(RootDest)
  /\ (dpc = "done" /\ HasEscapingChild(manifest, RootDest)) => result = "err"

C9_Witness ==
  /\ dpc = "done"
  /\ result = "err"
  /\ HasEscapingChild(manifest, RootDest)
  /\ \E n \in DOMAIN manifest.children :
       /\ manifest.children[n].hash # 0
       /\ ~Inside(Clean(RootDest \o n), RootDest)
  /\ written # {}

(***************************************************************************)
(* C10: a second download of the same manifest into the same, unmodified   *)
(* destination, after a first one that succeeded, issues no DownloadParts  *)
(* request and writes no file.                                             *)
(***************************************************************************)
C10_SecondRunIdle == run = 2 => (issued = {} /\ written = {})

(***************************************************************************)
(* C14: during a download with parallelism C (the integer                  *)
(* DOWNLOAD_PARALLELISM holds, 3 when it is unset or no integer), at most  *)
(* C DownloadParts requests are in flight in every reachable state,        *)
(* whatever the interleaving of the traversal calls.                       *)
(***************************************************************************)
InFlight == {a \in DOMAIN tasks : tasks[a].pc = "fetching"}

C14_PartFetchesBounded ==
  LET cap == IF envDown[1] = "int" THEN envDown[2] ELSE 3
  IN /\ Cardinality(InFlight) <= cap
     /\ dheld = Cardinality(InFlight)

\* every slot is taken and a further call waits for one
C14_Witness ==
  /\ envDown[1] = "int"
  /\ Cardinality(InFlight) = envDown[2]
  /\ \E a \in DOMAIN tasks : tasks[a].pc = "acquiring"

(***************************************************************************)
(* C15: the number of traversal calls of the walk that run at the same     *)
(* time (one per child of every directory node) is at most C, the depth of *)
(* the semaphore that bounds DownloadParts.                                *)
(***************************************************************************)
\* the calls for children that have been started, have not returned and are
\* not blocked (neither waiting for a slot nor for their own children)
RunningCalls ==
  {a \in DOMAIN tasks : a # <<>> /\ tasks[a].pc \in {"start", "fetching"}}

C15_WalkBounded ==
  LET cap == IF envDown[1] = "int" THEN envDown[2] ELSE 3
  IN dpc = "running" => Cardinality(RunningCalls) <= cap

(***************************************************************************)
(* C12: two ingestions of identical trees yield the same manifest bytes    *)
(* and the same Bundle ID, whatever the order in which the entries of the  *)
(* children maps are met.                                                  *)
(***************************************************************************)
C12_ManifestDeterministic ==
  (Len(ing) = 2 /\ ing[1].ok /\ ing[2].ok /\ disk = disk2) =>
    /\ ing[1].bytes = ing[2].bytes
    /\ BundleIdOf(ing[1].bytes) = BundleIdOf(ing[2].bytes)

\* the same tree, with three entries in its root, was ingested twice
C12_Witness ==
  /\ Len(ing) = 2 /\ ing[1].ok /\ ing[2].ok /\ disk = disk2
  /\ Len(ing[1].bytes.entries) = 3
  /\ ing[1].bytes = ing[2].bytes

(***************************************************************************)
(* C13: two trees that differ only in the presence or contents of entries  *)
(* named ".git" are ingested to the same manifest tree and the same        *)
(* ContentMap.                                                             *)
(***************************************************************************)
HasGit(q) == \E i \in 1..Len(q) : q[i] = ".git"

\* the tree without its entries named ".git" and what lies below them
WithoutGit(T) ==
  [dirs |-> {q \in T.dirs : ~HasGit(q)},
   files |-> [q \in {x \in DOMAIN T.files : ~HasGit(x)} |-> T.files[q]]]

C13_GitInvariant ==
  (Len(ing) = 2 /\ ing[1].ok /\ ing[2].ok /\ WithoutGit(disk) = WithoutGit(disk2)) =>
    /\ ing[1].node = ing[2].node
    /\ ing[1].contents = ing[2].contents

(***************************************************************************)
(* C11 as stated: after a tree was uploaded to a server that stores        *)
(* faithfully and the bundle was downloaded into an empty destination, the *)
(* destination holds exactly the files of the tree, at the same relative   *)
(* paths with the same bytes.                                              *)
(***************************************************************************)
\* the files below the destination, by their path relative to it
FilesBelow(dest) ==
  [q \in {SubSeq(x, Len(dest) + 1, Len(x)) : x \in DOMAIN fsFiles} |-> fsFiles[dest \o q]]

\* the directories below the destination, by their path relative to it
DirsBelow(dest) ==
  {SubSeq(x, Len(dest) + 1, Len(x)) : x \in {y \in fsDirs : Len(y) > Len(dest)}}

RoundTripDone == dpc = "done" /\ result = "ok" /\ server.kind = "faithful"

C11_RoundTrip == RoundTripDone => FilesBelow(RootDest) = disk.files

(***************************************************************************)
(* C11, amended: the destination then holds exactly the files and the      *)
(* directories of the tree that are not, and do not lie below, a directory *)
(* named ".git", at the same relative paths with the same bytes.           *)
(***************************************************************************)
BelowGitDir(T, q) ==
  \E k \in 1..Len(q) : q[k] = ".git" /\ SubSeq(q, 1, k) \in T.dirs

C11_RoundTripOutsideGit ==
  RoundTripDone =>
    /\ FilesBelow(RootDest) =
         [q \in {x \in DOMAIN disk.files : ~BelowGitDir(disk, x)} |-> disk.files[q]]
    /\ DirsBelow(RootDest) = {q \in disk.dirs : ~BelowGitDir(disk, q)}

\* a tree with a file in its root, an empty file of the same name in a
\* subdirectory and a .git directory holding a file has made the round trip
C11_Witness ==
  /\ RoundTripDone
  /\ disk.dirs = {<<"s">>, <<".git">>}
  /\ DOMAIN disk.files = {<<"a">>, <<"s", "a">>, <<".git", "a">>}
  /\ disk.files[<<"s", "a">>] = 0
  /\ written = {<<"d", "a">>, <<"d", "s", "a">>}

(***************************************************************************)
(* C16: the parts uploaded in the chunk phase are exactly the parts named  *)
(* by the Missing list of the UploadBundle response when Suggest reported  *)
(* Present=false, and exactly those named by the Missing list of the       *)
(* Suggest response when it reported Present=true.                         *)
(***************************************************************************)
\* how often b occurs in the list
Occurrences(b, list) == Cardinality({i \in DOMAIN list : list[i] = b})

SamePartsAs(s, t) == \A b \in Bodies : Occurrences(b, s) = Occurrences(b, t)

\* the parts the hashes of a Missing list name: the bytes ingested under them
PartsNamed(missing) ==
  LET known == SelectSeq(missing, LAMBDA h : h \in DOMAIN contents)
  IN [i \in DOMAIN known |-> contents[known[i]]]

C16_PartsFromMissing ==
  chunks # <<>> =>
    SamePartsAs(Flatten(chunks),
                PartsNamed(IF suggest.present THEN suggest.missing ELSE bundle.missing))

(***************************************************************************)
(* C17: the list handed to chunking is a permutation of the collected      *)
(* missing parts in order of non-increasing byte length, so across the     *)
(* concatenated chunks no part is shorter than the part after it.          *)
(***************************************************************************)
\* the parts collected from the two Missing lists, before they are sorted
Collected == AppendParts(<<>>, contents, suggest.missing \o bundle.missing)

C17_SortedBeforeChunking ==
  chunks # <<>> =>
    /\ SamePartsAs(toUpload, Collected)
    /\ Len(toUpload) = Len(Collected)
    /\ Flatten(chunks) = toUpload
    /\ \A i \in 1..Len(Flatten(chunks)) - 1 :
         LenOf(Flatten(chunks)[i]) >= LenOf(Flatten(chunks)[i + 1])

\* the parts were collected in another order than by size, and make
\* several chunks
C17_Witness ==
  /\ Len(chunks) >= 2
  /\ \E i \in 1..Len(Collected) - 1 : LenOf(Collected[i]) < LenOf(Collected[i + 1])
  /\ LenOf(chunks[1][1]) > LenOf(chunks[Len(chunks)][1])

(***************************************************************************)
(* C19: worker i gives its send slot back when its request body has been   *)
(* read to EOF, not when its response arrives: a worker that awaits its    *)
(* response holds no slot, the slots held are those of the workers still   *)
(* sending, and more than C workers may await their responses at once.     *)
(***************************************************************************)
Sending == {i \in Workers : wpc[i] = "sending"}

Awaiting == {i \in Workers : wpc[i] = "awaiting"}

C19_SlotFreedAtEOF ==
  /\ \A i \in Awaiting : released[i] /\ releases[i] = 1 /\ results[i] = "none"
  /\ held = Cardinality(Sending)
  /\ Cardinality(Sending) <= SemCapacity

\* more chunks await their response than there are slots, while a slot is in use
C19_Witness ==
  /\ Cardinality(Awaiting) > SemCapacity
  /\ Cardinality(Sending) = 1

(***************************************************************************)
(* C18: chunkSlice is first-fit over the list in order: a new chunk is     *)
(* started exactly when adding the next part to a non-empty current chunk  *)
(* would make its summed size exceed the bound.  So the size of a chunk    *)
(* plus the size of the first part of the next chunk exceeds the bound,    *)
(* and inside a chunk every part after the first fitted when it was added. *)
(* With bound 10, sizes (9, 2) give [[9],[2]] and sizes (4, 4, 4) give     *)
(* [[4,4],[4]].                                                            *)
(***************************************************************************)
SizesOf(list) == [i \in DOMAIN list |-> LenOf(list[i])]

C18_FirstFit ==
  csDone =>
    /\ \A k \in 1..Len(csResult) - 1 :
         SumLen(csResult[k]) + LenOf(csResult[k + 1][1]) > csMax
    /\ \A k \in 1..Len(csResult) :
         \A j \in 1..Len(csResult[k]) - 1 :
           SumLen(SubSeq(csResult[k], 1, j)) + LenOf(csResult[k][j + 1]) <= csMax
    /\ (csMax = 10 /\ SizesOf(csData) = <<9, 2>>) =>
         csResult = <<SubSeq(csData, 1, 1), SubSeq(csData, 2, 2)>>
    /\ (csMax = 10 /\ SizesOf(csData) = <<4, 4, 4>>) =>
         csResult = <<SubSeq(csData, 1, 2), SubSeq(csData, 3, 3)>>

(***************************************************************************)
(* C20: with n pinned clients and the counter incremented atomically and   *)
(* then taken modulo n, every n consecutive selections pick each client    *)
(* exactly once, whatever tasks select and in whatever order; so after k*n *)
(* selections every client has been picked exactly k times.                *)
(***************************************************************************)
C20_RoundRobin ==
  /\ \A w \in 0..Len(picks) - nClients :
       {picks[w + j] : j \in 1..nClients} = 0..nClients - 1
  /\ Len(picks) % nClients = 0 =>
       \A c \in 0..nClients - 1 : Occurrences(c, picks) * nClients = Len(picks)

\* three clients were selected twice each, by tasks holding clients at the
\* same time
C20_Witness ==
  /\ nClients = 3
  /\ Len(picks) = 6
  /\ Occurrences(0, picks) = 2
  /\ tpc[1] # 0 /\ tpc[2] # 0 /\ tpc[1] # tpc[2]

(***************************************************************************)
(* C23: findKey returns the value of XMIT_KEY whenever the variable is     *)
(* set, the empty string included, whatever the key file holds; when the   *)
(* variable is unset it returns the content of the key file without its    *)
(* leading and trailing white space, and the empty string when the file    *)
(* cannot be read.                                                         *)
(***************************************************************************)
C23_FindKey ==
  foundKey # <<"none">> =>
    LET k == foundKey[2]
    IN /\ XMIT_KEY[1] = "set" => k = XMIT_KEY[2]
       /\ (XMIT_KEY[1] = "unset" /\ keyFile[1] = "unreadable") => k = <<>>
       /\ (XMIT_KEY[1] = "unset" /\ keyFile[1] = "readable") =>
            LET c == keyFile[2]
            IN \E i \in 0..Len(c), j \in 0..Len(c) :
                 /\ i <= j
                 /\ k = SubSeq(c, i + 1, j)
                 /\ \A n \in (1..i) \cup ((j + 1)..Len(c)) : IsSpace(c[n])
                 /\ k # <<>> => (~IsSpace(k[1]) /\ ~IsSpace(k[Len(k)]))

\* the variable is set to the empty string while the key file holds a key
C23_Witness ==
  /\ foundKey = <<"key", <<>>>>
  /\ XMIT_KEY = <<"set", <<>>>>
  /\ keyFile = <<"readable", <<" ", "k", "\n">>>>

(***************************************************************************)
(* C27: once the progress reader is drained, that is once a Read has       *)
(* returned io.EOF, the end message has been printed exactly once, and it  *)
(* is never printed more than once.                                        *)
(***************************************************************************)
C27_EndMessageOnce ==
  /\ endMessages <= 1
  /\ readErr = "EOF" => endMessages = 1

(***************************************************************************)
(* C26: for every endpoint, a call that received a status other than 200   *)
(* returns an error and the body is not decoded; the body is decoded only  *)
(* for a response with status 200, a body that does not decode makes the   *)
(* call return an error, and a response record is returned only from a     *)
(* decoded body.                                                           *)
(***************************************************************************)
C26_StatusBeforeDecode ==
  call.pc # "idle" =>
    /\ call.decoded => (call.encodes /\ call.transport /\ call.status = 200)
    /\ call.pc = "returned" =>
         /\ (call.encodes /\ call.transport /\ call.status # 200) =>
              (call.result = "err" /\ ~call.decoded)
         /\ (call.encodes /\ call.transport /\ call.status = 200) => call.decoded
         /\ (call.decoded /\ call.body = "garbage") => call.result = "err"
         /\ call.result = "record" <=> (call.decoded /\ call.body = "valid")

\* a response with status 404 and a well-formed body
C26_Witness ==
  /\ call.pc = "returned"
  /\ call.encodes
  /\ call.transport
  /\ call.status = 404
  /\ call.body = "valid"
  /\ call.result = "err"
  /\ ~call.decoded

(***************************************************************************)
(* C21: when the list of parts collected from the Suggest and UploadBundle *)
(* answers is empty, there is no chunk phase (no chunk, no worker, no      *)
(* chunk request), the next step of the invocation issues Finalize with    *)
(* the manifest hash, Finalize is issued once, and the invocation ends in  *)
(* success exactly when the Finalize call is accepted.                     *)
(***************************************************************************)
ListKnown ==
  \/ pc \in {"missing_known", "uploading_parts", "parts_ok", "finalizing", "done"}
  \/ pc = "failed" /\ failedAt \in {"parts", "finalize"}

NothingToUpload ==
  (ListKnown /\ toUpload = <<>>) =>
    /\ chunks = <<>>
    /\ Workers = {}
    /\ pc \in {"missing_known", "finalizing", "done", "failed"}
    /\ pc = "missing_known" => finalize.state = "none"
    /\ pc = "finalizing" => (finalize.state = "issued" /\ finalize.id = bbh)
    /\ pc \in {"done", "failed"} =>
         /\ finalize.state = "answered"
         /\ finalize.id = bbh
         /\ pc = "done" <=> finalize.outcome = "ok"
         /\ pc = "failed" => failedAt = "finalize"

FinalizeOnce ==
  /\ (pc = "missing_known" /\ toUpload = <<>>) =>
       (pc' = "finalizing" /\ finalize.state = "none" /\ finalize'.state = "issued")
  /\ finalize'.state = "issued" => finalize.state \in {"none", "issued"}
  /\ finalize.state # "none" => finalize'.state # "none"

C21_EmptyListFinalizes == []NothingToUpload /\ [][FinalizeOnce]_vars

\* an upload with Present = true and Missing = [] that ended in success
C21_Witness ==
  /\ pc = "done"
  /\ suggest.present
  /\ suggest.missing = <<>>
  /\ toUpload = <<>>
  /\ finalize.id = bbh

C24_BadParallelismIsFatal ==
  /\ envUp[1] = "text" =>
       /\ uploadParallelism = 0
       /\ suggest.state = "none"
       /\ pc # "done"
  /\ envDown[1] = "text" =>
       /\ tasks = <<>>
       /\ issued = {}
       /\ result # "ok"

(***************************************************************************)
(* C30: when ingest returns an error (a directory or a file could not be   *)
(* read), the upload ends in failure there: no Suggest, UploadBundle,      *)
(* chunk or Finalize request is issued, and nothing is bundled.            *)
(***************************************************************************)
C30_IngestErrorIsFatal ==
  failedAt = "ingest" =>
    /\ pc = "failed"
    /\ contents = <<>>
    /\ bbh = 0
    /\ suggest.state = "none"
    /\ bundle.state = "none"
    /\ finalize.state = "none"
    /\ toUpload = <<>>
    /\ chunks = <<>>
    /\ Workers = {}

\* an upload with a key and a discovered endpoint whose ingestion failed
C30_Witness ==
  /\ failedAt = "ingest"
  /\ pc = "failed"
  /\ discovery = "ok"
  /\ key # ""

(***************************************************************************)
(* C22: after an ingestion that succeeded, every file node of the manifest *)
(* tree carries the hash of the bytes of the file at its path, that hash   *)
(* is a key of the contents map and the bytes stored under a key hash to   *)
(* it, and every key of the contents map is the hash of a file node.       *)
(***************************************************************************)
AddressOf(q) == [i \in 1..Len(q) |-> <<q[i]>>]

C22_ContentsMatchTree ==
  \A k \in DOMAIN ing :
    ing[k].ok =>
      LET T == IF k = 1 THEN disk ELSE disk2
          g == ing[k]
      IN /\ \A q \in DOMAIN T.files :
              ~BelowGitDir(T, q) =>
                LET h == NodeAt(g.node, AddressOf(q)).hash
                IN /\ h = HashOf(T.files[q])
                   /\ h \in DOMAIN g.contents
                   /\ g.contents[h] = T.files[q]
         /\ \A h \in DOMAIN g.contents : HashOf(g.contents[h]) = h
         /\ DOMAIN g.contents = HashesOf(g.node)

\* two files with the same bytes, and a file with other bytes below .git
C22_Witness ==
  /\ Len(ing) >= 1
  /\ ing[1].ok
  /\ <<"a">> \in DOMAIN disk.files
  /\ <<"s", "a">> \in DOMAIN disk.files
  /\ <<".git", "a">> \in DOMAIN disk.files
  /\ disk.files[<<"a">>] = disk.files[<<"s", "a">>]
  /\ disk.files[<<".git", "a">>] # disk.files[<<"a">>]
  /\ Cardinality(DOMAIN ing[1].contents) = 1

(***************************************************************************)
(* C28: the traversal call of a file node calls DownloadParts exactly when *)
(* there is no readable file at the node's destination whose hash is the   *)
(* node's: when there is one the call returns without error, issues no     *)
(* request and changes no file; otherwise it goes on to the request.  A    *)
(* request is issued only by a call that went on to it, and a call that    *)
(* is fetching has issued one.                                             *)
(***************************************************************************)
FileCalls == {a \in DOMAIN tasks : NodeAt(manifest, a).hash # 0}

HasCopy(a) ==
  /\ tasks[a].dest \in DOMAIN fsFiles
  /\ HashOf(fsFiles[tasks[a].dest]) = NodeAt(manifest, a).hash

CacheDecides ==
  \A a \in FileCalls :
    /\ (tasks[a].pc = "start" /\ a \in DOMAIN tasks' /\ tasks'[a].pc # "start") =>
         IF HasCopy(a)
         THEN /\ tasks'[a].pc = "done"
              /\ ~tasks'[a].err
              /\ fsFiles' = fsFiles
              /\ issued' = issued
              /\ written' = written
         ELSE tasks'[a].pc = "acquiring"
    /\ (a \notin issued /\ a \in issued') =>
         (tasks[a].pc = "acquiring" /\ tasks'[a].pc = "fetching")

RequestsKnown ==
  /\ \A a \in FileCalls :
       /\ tasks[a].pc = "fetching" => a \in issued
       /\ tasks[a].pc \in {"start", "acquiring"} => a \notin issued
  /\ issued \subseteq FileCalls

C28_FetchUnlessCached == []RequestsKnown /\ [][CacheDecides]_vars

\* one file was found in place and kept, another one was requested
C28_Witness ==
  \E a, b \in FileCalls :
    /\ tasks[a].pc = "done"
    /\ a \notin issued
    /\ HasCopy(a)
    /\ tasks[a].dest \notin written
    /\ b \in issued
    /\ run = 1

(***************************************************************************)
(* C29 as stated: the traversal call of a directory node returns an error  *)
(* exactly when at least one direct child failed, by the path check or by  *)
(* its own traversal; the count it reports is the number of failed direct  *)
(* children; and every child that passed the path check has run to         *)
(* completion when the call returns.                                       *)
(***************************************************************************)
DirCalls == {a \in DOMAIN tasks : NodeAt(manifest, a).hash = 0}

ChildNames(a) == DOMAIN NodeAt(manifest, a).children

\* the direct children that have failed so far
FailedChildren(a) ==
  {n \in ChildNames(a) :
     \/ ~SafePath(tasks[a].dest, n)
     \/ /\ Append(a, n) \in DOMAIN tasks
        /\ tasks[Append(a, n)].pc = "done"
        /\ tasks[Append(a, n)].err}

ChildrenCompleted(a) ==
  \A n \in ChildNames(a) :
    SafePath(tasks[a].dest, n) =>
      (Append(a, n) \in DOMAIN tasks /\ tasks[Append(a, n)].pc = "done")

C29_ErrorIffChildFailed ==
  \A a \in DirCalls :
    tasks[a].pc = "done" =>
      /\ tasks[a].err <=> FailedChildren(a) # {}
      /\ tasks[a].errors = Cardinality(FailedChildren(a))
      /\ ChildrenCompleted(a)

(***************************************************************************)
(* C29, amended: the traversal call of a directory node returns an error   *)
(* exactly when the directory could not be made, in which case no child is *)
(* visited, or at least one direct child failed, by the path check or by   *)
(* its own traversal.  When the directory was made, the count of errors    *)
(* held by the call is at every moment the number of direct children that  *)
(* have failed so far, and every child that passed the path check has run  *)
(* to completion when the call returns.                                    *)
(***************************************************************************)
C29_ErrorIffMkdirOrChildFailed ==
  \A a \in DirCalls :
    /\ tasks[a].pc = "waiting" => tasks[a].errors = Cardinality(FailedChildren(a))
    /\ tasks[a].pc = "done" =>
         IF Clean(tasks[a].dest) \notin fsDirs
         THEN /\ tasks[a].err
              /\ tasks[a].errors = 0
              /\ ChildrenOf(a) = {}
         ELSE /\ tasks[a].err <=> FailedChildren(a) # {}
              /\ tasks[a].errors = Cardinality(FailedChildren(a))
              /\ ChildrenCompleted(a)

\* a directory with two children visited, one that failed and one that did not
C29_Witness ==
  \E a \in DirCalls :
    /\ tasks[a].pc = "done"
    /\ tasks[a].err
    /\ tasks[a].errors = 1
    /\ \E x, y \in ChildrenOf(a) : tasks[x].err /\ ~tasks[y].err /\ tasks[y].pc = "done"

C32_TransferTerminates == <>(dpc = "done")

(***************************************************************************)
(* C33: for every list of parts in order of non-increasing length, lists   *)
(* that end in zero-length parts included, and every bound of at least 1,  *)
(* chunkSlice returns no empty chunk, no chunk at all for the empty list,  *)
(* and every chunk returned has a summed size within the bound or holds    *)
(* exactly one part.                                                       *)
(***************************************************************************)
NonIncreasing(data) ==
  \A i \in 1..(Len(data) - 1) : LenOf(data[i]) >= LenOf(data[i + 1])

C33_SortedChunks ==
  (csDone /\ NonIncreasing(csData) /\ csMax >= 1) =>
    /\ \A k \in 1..Len(csResult) : Len(csResult[k]) > 0
    /\ csData = <<>> => csResult = <<>>
    /\ \A k \in 1..Len(csResult) :
         SumLen(csResult[k]) <= csMax \/ Len(csResult[k]) = 1

\* a part over the bound first, a zero-length part last
C33_Witness ==
  /\ csDone
  /\ NonIncreasing(csData)
  /\ csMax >= 1
  /\ Len(csData) = MaxLen
  /\ LenOf(csData[1]) > csMax
  /\ LenOf(csData[Len(csData)]) = 0
  /\ Len(csResult) >= 2

(***************************************************************************)
(* C34: no part is uploaded more than once in one invocation: for every    *)
(* hash of the contents map, the chunks hold the bytes stored under it at  *)
(* most once, whatever the two Missing lists hold.                         *)
(***************************************************************************)
C34_NoPartTwice ==
  \A h \in DOMAIN contents : Occurrences(contents[h], Flatten(chunks)) <= 1

(***************************************************************************)
(* C35: every part of a chunk is the body of a file of the ingested tree:  *)
(* its hash is a key of the contents map and it is the bytes stored under  *)
(* that key; a Missing hash the contents map does not hold puts no part    *)
(* into a chunk.                                                           *)
(***************************************************************************)
C35_PartsAreFileBodies ==
  \A k \in DOMAIN chunks :
    \A i \in DOMAIN chunks[k] :
      /\ HashOf(chunks[k][i]) \in DOMAIN contents
      /\ contents[HashOf(chunks[k][i])] = chunks[k][i]

(***************************************************************************)
(* C36: Finalize is issued at most once in an invocation, and the ID it    *)
(* names is the manifest hash, the one Suggest named, whatever ID the      *)
(* UploadBundle response held.                                             *)
(***************************************************************************)
FinalizeNamesManifest ==
  finalize.state # "none" =>
    /\ finalize.id = bbh
    /\ finalize.id = ManifestHashOf(TreeFiles)
    /\ suggest.state = "answered"
    /\ suggest.id = finalize.id

FinalizeNotRepeated ==
  /\ finalize'.state = "issued" => finalize.state \in {"none", "issued"}
  /\ finalize.state # "none" => (finalize'.state # "none" /\ finalize'.id = finalize.id)

C36_FinalizeOnceWithManifestHash == []FinalizeNamesManifest /\ [][FinalizeNotRepeated]_vars

\* Finalize was accepted after an UploadBundle response with another ID
C36_Witness ==
  /\ pc = "done"
  /\ bundle.state = "answered"
  /\ bundle.id # bbh
  /\ finalize.id = bbh

(***************************************************************************)
(* C37: when download has returned success, the destination path of every  *)
(* file node holds bytes whose hash is the node's, whatever the server     *)
(* answered.                                                               *)
(***************************************************************************)
C37_DownloadedBytesVerified ==
  (dpc = "done" /\ result = "ok") => \A a \in FileCalls : HasCopy(a)

(***************************************************************************)
(* C38: the byte counts of successive progress lines never decrease and    *)
(* never exceed the total, the bytes handed to the caller are the payload  *)
(* in order, and once the reader is drained the whole payload has been     *)
(* handed over and the last progress line shows the total.                 *)
(***************************************************************************)
C38_ProgressLines ==
  /\ \A i, j \in DOMAIN reader.shown : i <= j => reader.shown[i] <= reader.shown[j]
  /\ \A i \in DOMAIN reader.shown : reader.shown[i] <= reader.total
  /\ \A i \in DOMAIN reader.delivered : reader.delivered[i] = i
  /\ Len(reader.delivered) <= reader.total
  /\ readErr = "EOF" =>
       /\ Len(reader.delivered) = reader.total
       /\ reader.shown[Len(reader.shown)] = reader.total

C38_Witness ==
  /\ readErr = "EOF"
  /\ reader.total > ReadLimit
  /\ Len(reader.shown) >= 4
  /\ \E i \in DOMAIN reader.shown : 0 < reader.shown[i] /\ reader.shown[i] < reader.total

(***************************************************************************)
(* C39: the file the preview handler opens and serves for a request lies   *)
(* inside the previewed directory, whatever the request path and the       *)
(* fallback and 404 file names of the configuration.                       *)
(***************************************************************************)
C39_ServedInsideDirectory ==
  response.kind = "file" =>
    /\ Inside(response.realp, directory)
    /\ response.realp # directory

====
